---- MODULE Spec2Model ----
(***************************************************************************)
(* Conversation workflow (workflow.js: shippingAgentNode and the quote     *)
(* engine) together with the HTTP handlers of index.js that create, load   *)
(* and extend a session checkpoint, and the two job queues with their      *)
(* workers (test-redis.js): the stages of a run, the files on the worker's *)
(* disk, the concurrency and the rate limit.                               *)
(*                                                                         *)
(* JavaScript values are tagged records, so that null, the empty string,   *)
(* text and numbers stay distinct.  Field texts are sequences of           *)
(* characters; message texts are sequences of lexical tokens.  The         *)
(* timestamps of messages and the pass-through channels userId, threadId   *)
(* and nextAction are not represented; the timestamps of a quote are       *)
(* added by QuoteAt.                                                       *)
(***************************************************************************)
EXTENDS Integers, Sequences, FiniteSets, TLC

VARIABLES
    checkpoint,      \* MemorySaver: thread id -> persisted channel values
    invoiceTable,    \* relational table `invoices`: set of rows
    invoiceQueue,    \* jobs added to invoice-upload-queue, in order
    shippingAgent,   \* whether the agent executor has been created
    last,            \* what the most recent request did (history)
    pending,         \* request id -> how far its handler has run
    queue,           \* jobs added to file-upload-queue, in order
    quoteLog,        \* calls made to the quote function (history)
    files,           \* files on the worker's disk: set of [path, content]
    attempt,         \* what the most recent run of a processor did (history)
    limiter,         \* queue name -> rate-limit counter and its time to live
    slots,           \* queue name -> the job each processor slot is running
    started          \* queue name -> ages of the recent job starts (history)

workerVars == <<files, attempt, limiter, slots, started>>

vars == <<checkpoint, invoiceTable, invoiceQueue, shippingAgent, last,
          pending, queue, quoteLog, files, attempt, limiter, slots, started>>

-----------------------------------------------------------------------------
(* Bounds of the model *)

MaxMessages == 6
MaxInvoices == 1

Threads == {"thread_1"}
InvoiceIds == <<"inv_1", "inv_2", "inv_3">>

-----------------------------------------------------------------------------
(* JavaScript values *)

Undefined == [type |-> "undefined"]
Null == [type |-> "null"]
Str(cs) == [type |-> "string", chars |-> cs]
Num(n) == [type |-> "number", num |-> n]
Arr(xs) == [type |-> "array", items |-> xs]

\* ToBoolean
Truthy(v) ==
    CASE v.type = "undefined" -> FALSE
      [] v.type = "null" -> FALSE
      [] v.type = "string" -> v.chars # <<>>
      [] v.type = "number" -> v.num # 0
      [] OTHER -> TRUE

\* obj[key] of a plain object (a function from its own keys to values)
Get(obj, key) == IF key \in DOMAIN obj THEN obj[key] ELSE Undefined

\* { ...obj, [key]: v }
Put(obj, key, v) ==
    [k \in (DOMAIN obj) \cup {key} |-> IF k = key THEN v ELSE obj[k]]

EmptyObject == [k \in {} |-> Null]

\* a || b
Or(a, b) == IF Truthy(a) THEN a ELSE b

-----------------------------------------------------------------------------
(* Strings as character sequences *)

UpperChars == <<"A","B","C","D","E","F","G","H","I","J","K","L","M",
                "N","O","P","Q","R","S","T","U","V","W","X","Y","Z">>
LowerChars == <<"a","b","c","d","e","f","g","h","i","j","k","l","m",
                "n","o","p","q","r","s","t","u","v","w","x","y","z">>
Digits == <<"0","1","2","3","4","5","6","7","8","9">>
Whitespace == {" ", "\n", "\t"}

LowerChar(c) ==
    IF \E i \in 1..Len(UpperChars) : UpperChars[i] = c
    THEN LowerChars[CHOOSE i \in 1..Len(UpperChars) : UpperChars[i] = c]
    ELSE c

toLowerCase(cs) == [i \in 1..Len(cs) |-> LowerChar(cs[i])]

includes(cs, sub) ==
    \E i \in 0..(Len(cs) - Len(sub)) : SubSeq(cs, i + 1, i + Len(sub)) = sub

IsDigit(c) == \E i \in 1..Len(Digits) : Digits[i] = c
DigitValue(c) == (CHOOSE i \in 1..Len(Digits) : Digits[i] = c) - 1

\* End of the maximal run of characters of `class` that starts at i
\* (i - 1 when cs[i] is not in the class).
RECURSIVE RunEnd(_, _, _)
RunEnd(cs, i, class) ==
    IF i <= Len(cs) /\ cs[i] \in class THEN RunEnd(cs, i + 1, class) ELSE i - 1

DigitSet == {Digits[i] : i \in 1..Len(Digits)}

\* Value of a non-empty sequence of decimal digits
RECURSIVE DecimalValue(_)
DecimalValue(ds) ==
    IF ds = <<>> THEN 0
    ELSE 10 * DecimalValue(SubSeq(ds, 1, Len(ds) - 1)) + DigitValue(ds[Len(ds)])

-----------------------------------------------------------------------------
(* Quote engine: generateShippingQuote and its helpers *)

NaN == [type |-> "NaN"]

\* /(\d+)\s*kg/i : the leftmost position where a maximal run of digits is
\* followed by optional whitespace and then "kg" in either case.
WeightMatchAt(cs, i) ==
    /\ i <= Len(cs) /\ IsDigit(cs[i])
    /\ LET j == RunEnd(cs, i, DigitSet)
           k == RunEnd(cs, j + 1, Whitespace)
       IN  /\ k + 2 <= Len(cs)
           /\ LowerChar(cs[k + 1]) = "k"
           /\ LowerChar(cs[k + 2]) = "g"

HasWeightMatch(cs) == \E i \in 1..Len(cs) : WeightMatchAt(cs, i)

\* parseInt(weightMatch[1])
WeightMatchValue(cs) ==
    LET i == CHOOSE p \in 1..Len(cs) :
                 WeightMatchAt(cs, p) /\ \A q \in 1..(p - 1) : ~WeightMatchAt(cs, q)
    IN  DecimalValue(SubSeq(cs, i, RunEnd(cs, i, DigitSet)))

\* /[\d,]+/ : the leftmost maximal run of digits and commas
ValueClass == DigitSet \cup {","}
HasValueMatch(cs) == \E i \in 1..Len(cs) : cs[i] \in ValueClass
ValueMatchText(cs) ==
    LET i == CHOOSE p \in 1..Len(cs) :
                 cs[p] \in ValueClass /\ \A q \in 1..(p - 1) : cs[q] \notin ValueClass
    IN  SubSeq(cs, i, RunEnd(cs, i, ValueClass))

\* parseInt(text.replace(/,/g, '')) : NaN when no digit is left
ParseValue(text) ==
    LET ds == SelectSeq(text, LAMBDA c : c # ",")
    IN  IF ds = <<>> THEN NaN ELSE Num(DecimalValue(ds))

Countries == <<
    <<"u","s","a">>,
    <<"u","s">>,
    <<"u","n","i","t","e","d"," ","s","t","a","t","e","s">>,
    <<"u","k">>,
    <<"u","n","i","t","e","d"," ","k","i","n","g","d","o","m">>,
    <<"i","n","d","i","a">>,
    <<"c","h","i","n","a">>,
    <<"j","a","p","a","n">>,
    <<"g","e","r","m","a","n","y">>,
    <<"f","r","a","n","c","e">>,
    <<"c","a","n","a","d","a">>,
    <<"a","u","s","t","r","a","l","i","a">>,
    <<"b","r","a","z","i","l">>,
    <<"m","e","x","i","c","o">> >>

\* countries.find(c => lower.includes(c)) : the first listed country, or Undefined
FindCountry(lower) ==
    IF \E i \in 1..Len(Countries) : includes(lower, Countries[i])
    THEN Str(Countries[CHOOSE i \in 1..Len(Countries) :
                 /\ includes(lower, Countries[i])
                 /\ \A j \in 1..(i - 1) : ~includes(lower, Countries[j])])
    ELSE Undefined

determineRouteType(origin, destination) ==
    IF ~Truthy(origin) \/ ~Truthy(destination) THEN "domestic"
    ELSE LET originLower == toLowerCase(origin.chars)
             destLower == toLowerCase(destination.chars)
             originCountry == FindCountry(originLower)
             destCountry == FindCountry(destLower)
         IN  IF Truthy(originCountry) /\ Truthy(destCountry) /\ originCountry # destCountry
             THEN "international"
             ELSE IF \/ includes(originLower, <<"a","s","i","a">>) \/ includes(destLower, <<"a","s","i","a">>)
                     \/ includes(originLower, <<"e","u","r","o","p","e">>) \/ includes(destLower, <<"e","u","r","o","p","e">>)
                  THEN "international"
                  ELSE "domestic"

\* Dollars, or NaN when the declared value is NaN
calculateBaseRate(routeType, weight, value) ==
    LET baseRate == CASE routeType = "international" -> 480
                      [] routeType = "regional" -> 280
                      [] OTHER -> 120
        weightRate == ((weight + 9) \div 10) * 18
    IN  IF value.type = "NaN" THEN NaN
        ELSE Num(baseRate + weightRate + ((value.num + 999) \div 1000) * 5)

Express == <<"E","x","p","r","e","s","s">>
Standard == <<"S","t","a","n","d","a","r","d">>
Economy == <<"E","c","o","n","o","m","y">>

\* Names every object literal inherits from Object.prototype: multipliers[name]
\* is then a function, which is truthy and has neither multiplier nor days
Constructor == <<"c","o","n","s","t","r","u","c","t","o","r">>
InheritedKeys == {Str(Constructor), Str(<<"t","o","S","t","r","i","n","g">>)}
Inherited == [inherited |-> TRUE]

\* multipliers[serviceLevel] || multipliers.Standard : multiplier in
\* hundredths; days is the pair the text "a-b" splits into
getServiceMultiplier(serviceLevel) ==
    CASE serviceLevel = Str(Express) -> [multiplier |-> 250, days |-> <<1, 3>>]
      [] serviceLevel = Str(Economy) -> [multiplier |-> 75, days |-> <<8, 14>>]
      [] serviceLevel \in InheritedKeys -> Inherited
      [] OTHER -> [multiplier |-> 100, days |-> <<4, 7>>]

RECURSIVE JoinWithSpace(_)
JoinWithSpace(items) ==
    IF items = <<>> THEN <<>>
    ELSE IF Len(items) = 1 THEN items[1].chars
    ELSE items[1].chars \o <<" ">> \o JoinWithSpace(Tail(items))

\* Variant: a category is charged once for each of its keywords found
calculateAdditionalCosts_PerKeyword(requirements, value) ==
    IF ~Truthy(requirements) THEN Num(0)
    ELSE LET reqString ==
                 CASE requirements.type = "array" -> toLowerCase(JoinWithSpace(requirements.items))
                   [] requirements.type = "string" -> toLowerCase(requirements.chars)
                   [] OTHER -> <<>>
             Charge(keyword, amount) == IF includes(reqString, keyword) THEN amount ELSE 0
             flat ==
                 Charge(<<"f","r","a","g","i","l","e">>, 35) + Charge(<<"h","a","n","d","l","e"," ","w","i","t","h"," ","c","a","r","e">>, 35)
               + Charge(<<"h","a","z","a","r","d","o","u","s">>, 150) + Charge(<<"d","a","n","g","e","r","o","u","s">>, 150)
               + Charge(<<"t","e","m","p","e","r","a","t","u","r","e">>, 95) + Charge(<<"r","e","f","r","i","g","e","r","a","t","e","d">>, 95)
               + Charge(<<"c","u","s","t","o","m","s">>, 55) + Charge(<<"c","l","e","a","r","a","n","c","e">>, 55)
               + Charge(<<"e","x","p","r","e","s","s">>, 75) + Charge(<<"u","r","g","e","n","t">>, 75)
             insured == includes(reqString, <<"i","n","s","u","r","a","n","c","e">>)
         IN  IF insured /\ value.type = "NaN" THEN NaN
             ELSE Num(flat * 10000
                      + (IF insured
                         THEN (IF value.num * 80 > 600000 THEN value.num * 80 ELSE 600000)
                         ELSE 0))

\* Ten-thousandths of a dollar, or NaN
calculateAdditionalCosts(requirements, value) ==
    IF ~Truthy(requirements) THEN Num(0)
    ELSE LET reqString ==
                 CASE requirements.type = "array" -> toLowerCase(JoinWithSpace(requirements.items))
                   [] requirements.type = "string" -> toLowerCase(requirements.chars)
                   [] OTHER -> <<>>
             flat ==
                 (IF includes(reqString, <<"f","r","a","g","i","l","e">>) \/ includes(reqString, <<"h","a","n","d","l","e"," ","w","i","t","h"," ","c","a","r","e">>) THEN 35 ELSE 0)
               + (IF includes(reqString, <<"h","a","z","a","r","d","o","u","s">>) \/ includes(reqString, <<"d","a","n","g","e","r","o","u","s">>) THEN 150 ELSE 0)
               + (IF includes(reqString, <<"t","e","m","p","e","r","a","t","u","r","e">>) \/ includes(reqString, <<"r","e","f","r","i","g","e","r","a","t","e","d">>) THEN 95 ELSE 0)
               + (IF includes(reqString, <<"c","u","s","t","o","m","s">>) \/ includes(reqString, <<"c","l","e","a","r","a","n","c","e">>) THEN 55 ELSE 0)
               + (IF includes(reqString, <<"e","x","p","r","e","s","s">>) \/ includes(reqString, <<"u","r","g","e","n","t">>) THEN 75 ELSE 0)
             insured == includes(reqString, <<"i","n","s","u","r","a","n","c","e">>)
         IN  IF insured /\ value.type = "NaN" THEN NaN
             ELSE Num(flat * 10000
                      + (IF insured
                         THEN (IF value.num * 80 > 600000 THEN value.num * 80 ELSE 600000)
                         ELSE 0))

CarrierIds == <<"dhl_express_001", "fedex_intl_002", "ups_worldwide_003",
                "maersk_004", "db_schenker_005">>

\* quotes.sort((a, b) => parseFloat(a.rate) - parseFloat(b.rate)) : a stable
\* sort; a comparison with NaN yields NaN, which orders nothing.
RateLess(a, b) ==
    a.rate.type = "number" /\ b.rate.type = "number" /\ a.rate.num < b.rate.num

RECURSIVE InsertByRate(_, _)
InsertByRate(sorted, q) ==
    IF sorted = <<>> THEN <<q>>
    ELSE IF RateLess(q, sorted[Len(sorted)])
         THEN Append(InsertByRate(SubSeq(sorted, 1, Len(sorted) - 1), q),
                     sorted[Len(sorted)])
         ELSE Append(sorted, q)

RECURSIVE SortByRate(_)
SortByRate(qs) ==
    IF qs = <<>> THEN <<>>
    ELSE InsertByRate(SortByRate(SubSeq(qs, 1, Len(qs) - 1)), qs[Len(qs)])

Thrown == [type |-> "throw"]

\* Variant: every carrier keeps the transit range of the service level
CarrierOffer_SameTransit(index, baseRate, service, additionalCost, serviceLevel) ==
    [carrierId |-> CarrierIds[index + 1],
     service |-> Or(serviceLevel, Str(Standard)),
     rate |-> IF baseRate.type = "NaN" \/ additionalCost.type = "NaN" THEN NaN
              ELSE Num((baseRate.num * service.multiplier * (88 + index * 8)
                        + additionalCost.num + 50) \div 100),
     minDays |-> service.days[1],
     maxDays |-> service.days[2]]

\* The offer of the carrier at position index (0-based); rate is in cents,
\* as finalRate.toFixed(2) prints it.
CarrierOffer(index, baseRate, service, additionalCost, serviceLevel) ==
    [carrierId |-> CarrierIds[index + 1],
     service |-> Or(serviceLevel, Str(Standard)),
     rate |-> IF baseRate.type = "NaN" \/ additionalCost.type = "NaN" THEN NaN
              ELSE Num((baseRate.num * service.multiplier * (88 + index * 8)
                        + additionalCost.num + 50) \div 100),
     minDays |-> service.days[1] + index,
     maxDays |-> service.days[2] + index]

\* The quote, or Thrown where the code raises a TypeError (.match or
\* .toLowerCase applied to a value that is not a string, .split applied to
\* the days of a service that has none).
generateShippingQuote(shipmentData) ==
    LET cargo == Get(shipmentData, "cargo")
        weight == Get(shipmentData, "weight")
        serviceLevel == Get(shipmentData, "serviceLevel")
        specialRequirements == Get(shipmentData, "specialRequirements")
        declaredValue == Get(shipmentData, "declaredValue")
        origin == Get(shipmentData, "origin")
        destination == Get(shipmentData, "destination")
        weightText == Or(Or(weight, cargo), Str(<<>>))
        valueText == Or(declaredValue, Str(<<>>))
    IN  IF \/ weightText.type # "string"
           \/ valueText.type # "string"
           \/ /\ Truthy(origin) /\ Truthy(destination)
              /\ (origin.type # "string" \/ destination.type # "string")
        THEN Thrown
        ELSE
        LET weightValue == IF HasWeightMatch(weightText.chars)
                           THEN WeightMatchValue(weightText.chars) ELSE 50
            value == IF HasValueMatch(valueText.chars)
                     THEN ParseValue(ValueMatchText(valueText.chars)) ELSE Num(1000)
            routeType == determineRouteType(origin, destination)
            baseRate == calculateBaseRate(routeType, weightValue, value)
            service == getServiceMultiplier(serviceLevel)
            additionalCost == calculateAdditionalCosts(specialRequirements, value)
            quotes == SortByRate([i \in 1..3 |->
                          CarrierOffer(i - 1, baseRate, service, additionalCost, serviceLevel)])
        IN  IF "days" \notin DOMAIN service THEN Thrown
            ELSE
            [type |-> "quote",
             quotes |-> quotes,
             recommendedQuote |-> quotes[1],
             totalEstimate |-> quotes[1].rate,
             shipmentDetails |->
                 [weight |-> weightValue,
                  declaredValue |-> value,
                  origin |-> Or(origin, Str(<<"O","r","i","g","i","n">>)),
                  destination |-> Or(destination, Str(<<"D","e","s","t","i","n","a","t","i","o","n">>)),
                  serviceLevel |-> Or(serviceLevel, Str(Standard)),
                  cargo |-> Or(cargo, Str(<<"G","e","n","e","r","a","l"," ","c","a","r","g","o">>))]]

-----------------------------------------------------------------------------
(* Conversation workflow: shippingAgentNode *)

\* Message texts are sequences of tokens; these tokens are white space.
IsSpaceToken(tok) == tok \in {" ", "\n"}

Marker == "READY_FOR_QUOTE"

RECURSIVE TrimStart(_)
TrimStart(toks) ==
    IF toks # <<>> /\ IsSpaceToken(toks[1]) THEN TrimStart(Tail(toks)) ELSE toks

RECURSIVE TrimEnd(_)
TrimEnd(toks) ==
    IF toks # <<>> /\ IsSpaceToken(toks[Len(toks)])
    THEN TrimEnd(SubSeq(toks, 1, Len(toks) - 1)) ELSE toks

Trim(toks) == TrimEnd(TrimStart(toks))

\* responseText.trim().startsWith('READY_FOR_QUOTE')
ShouldGenerateQuote(responseText) ==
    LET t == Trim(responseText) IN t # <<>> /\ t[1] = Marker

\* responseText.replace(/^READY_FOR_QUOTE\s*/i, '').trim() when the flag is
\* set, responseText itself otherwise
AssistantResponse(responseText) ==
    IF ShouldGenerateQuote(responseText)
    THEN IF responseText[1] \in {Marker, "ready_for_quote"}
         THEN Trim(Tail(responseText))
         ELSE Trim(responseText)
    ELSE responseText

TextContent(toks) == [kind |-> "text", text |-> toks]

GreetingContent == TextContent(<<"Hello! I'm your AI shipping agent.">>)
ApologyContent == TextContent(<<"I apologize, I encountered an error processing your request.">>)

Message(role, content) == [role |-> role, content |-> content]

\* Variant: { ...shipmentData, ...parsed } with no filter on null and ''
MergeExtraction_Spread(shipmentData, extraction) ==
    IF extraction.kind = "json"
    THEN [k \in (DOMAIN shipmentData) \cup (DOMAIN extraction.parsed) |->
             IF k \in DOMAIN extraction.parsed THEN extraction.parsed[k]
             ELSE shipmentData[k]]
    ELSE shipmentData

\* Variant: a reply that cannot be parsed empties the collected fields
MergeExtraction_ClearsOnBadReply(shipmentData, extraction) ==
    IF extraction.kind = "json"
    THEN LET parsed == extraction.parsed
             written == {k \in DOMAIN parsed : parsed[k] # Null /\ parsed[k] # Str(<<>>)}
         IN  [k \in (DOMAIN shipmentData) \cup written |->
                 IF k \in written THEN parsed[k] ELSE shipmentData[k]]
    ELSE IF extraction.kind = "throws" THEN shipmentData
    ELSE EmptyObject

\* Object.keys(parsed).forEach(key => { if (parsed[key] !== null &&
\* parsed[key] !== '') extractedData[key] = parsed[key]; }) on a copy of
\* shipmentData; the copy itself when the call fails, the reply holds no
\* {...} or JSON.parse throws.
MergeExtraction(shipmentData, extraction) ==
    IF extraction.kind = "json"
    THEN LET parsed == extraction.parsed
             written == {k \in DOMAIN parsed : parsed[k] # Null /\ parsed[k] # Str(<<>>)}
         IN  [k \in (DOMAIN shipmentData) \cup written |->
                 IF k \in written THEN parsed[k] ELSE shipmentData[k]]
    ELSE shipmentData

determinePhase(data) ==
    IF Truthy(Get(data, "quote")) THEN "quote_generated"
    ELSE IF /\ Truthy(Get(data, "origin")) /\ Truthy(Get(data, "destination"))
            /\ Truthy(Get(data, "cargo")) /\ Truthy(Get(data, "weight"))
         THEN "ready_for_quote"
    ELSE IF Truthy(Get(data, "cargo")) /\ Truthy(Get(data, "weight"))
         THEN "service_selection"
    ELSE IF Truthy(Get(data, "origin")) /\ Truthy(Get(data, "destination"))
         THEN "cargo_collection"
    ELSE "route_collection"

\* The quote message: the reply followed by the three offers and the
\* shipment summary
QuoteMessageContent(assistantResponse, quote, extractedData, shipmentData) ==
    [kind |-> "quoteMessage",
     text |-> assistantResponse,
     quotes |-> quote.quotes,
     origin |-> Or(Get(extractedData, "origin"), Str(<<"O","r","i","g","i","n">>)),
     destination |-> Or(Get(extractedData, "destination"),
                        Str(<<"D","e","s","t","i","n","a","t","i","o","n">>)),
     weight |-> Or(Get(extractedData, "weight"),
                   Str(<<"N","o","t"," ","s","p","e","c","i","f","i","e","d">>)),
     service |-> Or(Get(extractedData, "serviceLevel"), Str(Standard)),
     special |-> Or(Get(extractedData, "specialRequirements"), Str(<<>>)),
     invoices |-> IF Get(shipmentData, "invoices").type = "array"
                  THEN Len(Get(shipmentData, "invoices").items) ELSE 0]

\* Variant: the catch block written inside the extraction try, so that the
\* merged copy is what the turn keeps
AgentError_KeepsNothing(state) ==
    [state EXCEPT !.messages = Append(@, Message("assistant", ApologyContent)),
                  !.shipmentData = EmptyObject,
                  !.output = ApologyContent,
                  !.completed = FALSE]

\* Variant: the catch block returns without a message of its own
AgentError_NoMessage(state) ==
    [state EXCEPT !.output = ApologyContent,
                  !.completed = FALSE]

\* The catch block of the node
AgentError(state) ==
    [state EXCEPT !.messages = Append(@, Message("assistant", ApologyContent)),
                  !.output = ApologyContent,
                  !.completed = FALSE]

\* The branch of the node that appends the quote
QuoteTurn(state, assistantResponse, extractedData) ==
    LET quote == generateShippingQuote(extractedData)
        quoteMessage == QuoteMessageContent(assistantResponse, quote, extractedData,
                                            state.shipmentData)
    IN  IF quote = Thrown THEN AgentError(state)
        ELSE [state EXCEPT !.messages = Append(@, Message("assistant", quoteMessage)),
                           !.shipmentData = extractedData,
                           !.quote = quote,
                           !.output = quoteMessage,
                           !.currentPhase = "quote_generated",
                           !.completed = TRUE]

\* Variant: only the latest exchange is kept in the log
ContinueTurn_KeepsLatest(state, assistantResponse, extractedData) ==
    [state EXCEPT !.messages = <<@[Len(@)],
                      Message("assistant", TextContent(assistantResponse))>>,
                  !.shipmentData = extractedData,
                  !.output = TextContent(assistantResponse),
                  !.currentPhase = determinePhase(extractedData),
                  !.completed = FALSE]

\* The branch of the node that continues the conversation
ContinueTurn(state, assistantResponse, extractedData) ==
    [state EXCEPT !.messages = Append(@, Message("assistant", TextContent(assistantResponse))),
                  !.shipmentData = extractedData,
                  !.output = TextContent(assistantResponse),
                  !.currentPhase = determinePhase(extractedData),
                  !.completed = FALSE]

\* Variant: the greeting is appended and the phase left as it was
GreetingTurn_KeepsPhase(state) ==
    [state EXCEPT !.messages = Append(@, Message("assistant", GreetingContent)),
                  !.output = GreetingContent,
                  !.completed = FALSE]

\* The branch of the node for an empty message log
GreetingTurn(state) ==
    [state EXCEPT !.messages = <<Message("assistant", GreetingContent)>>,
                  !.output = GreetingContent,
                  !.currentPhase = "route_collection",
                  !.completed = FALSE]

\* The branch of the node for a log that ends with an assistant message
WaitingForUser(state) ==
    [state EXCEPT !.output = state.messages[Len(state.messages)].content,
                  !.completed = FALSE]

\* Variant: the cargo is not asked for
ReadyToQuote_RouteOnly(shouldGenerateQuote, extractedData) ==
    /\ shouldGenerateQuote
    /\ Truthy(Get(extractedData, "origin"))
    /\ Truthy(Get(extractedData, "destination"))

\* shouldGenerateQuote && extractedData.origin && extractedData.destination
\* && extractedData.cargo
ReadyToQuote(shouldGenerateQuote, extractedData) ==
    /\ shouldGenerateQuote
    /\ Truthy(Get(extractedData, "origin"))
    /\ Truthy(Get(extractedData, "destination"))
    /\ Truthy(Get(extractedData, "cargo"))

\* The state the node returns.  generation is the outcome of the first
\* model.invoke (a reply text, or a failure), extraction that of the second.
shippingAgentNode(state, generation, extraction) ==
    IF Len(state.messages) = 0 THEN GreetingTurn(state)
    ELSE IF state.messages[Len(state.messages)].role = "assistant"
         THEN WaitingForUser(state)
    ELSE IF generation.kind = "throws" THEN AgentError(state)
    ELSE LET shouldGenerateQuote == ShouldGenerateQuote(generation.text)
             assistantResponse == AssistantResponse(generation.text)
             extractedData == MergeExtraction(state.shipmentData, extraction)
         IN  IF ReadyToQuote(shouldGenerateQuote, extractedData)
             THEN QuoteTurn(state, assistantResponse, extractedData)
             ELSE ContinueTurn(state, assistantResponse, extractedData)

\* Number of model.invoke calls the node makes
ModelCalls(state, generation) ==
    IF Len(state.messages) = 0 THEN 0
    ELSE IF state.messages[Len(state.messages)].role = "assistant" THEN 0
    ELSE IF generation.kind = "throws" THEN 1
    ELSE 2

-----------------------------------------------------------------------------
(* Inputs: user texts, and what the two model calls of a turn can yield *)

UserTexts == { <<"user text">> }

Responses ==
    { <<"reply">>,
      <<Marker, "\n", "reply", "\n">> }

Generations ==
    {[kind |-> "throws"]} \cup {[kind |-> "text", text |-> r] : r \in Responses}

ExtractionKeys ==
    {"origin", "destination", "cargo", "weight", "serviceLevel",
     "specialRequirements", "declaredValue", "contactName", "contactEmail",
     "contactPhone"}

\* The JSON object the extraction prompt asks for: every key, null where
\* nothing was found
Template(found) == [k \in ExtractionKeys |-> IF k \in DOMAIN found THEN found[k] ELSE Null]

Mumbai == <<"M","u","m","b","a","i",","," ","I","n","d","i","a">>
NewYork == <<"N","e","w"," ","Y","o","r","k",","," ","U","S","A">>
Delhi == <<"D","e","l","h","i",","," ","I","n","d","i","a">>

ParsedObjects ==
    { Template([origin |-> Str(Mumbai), destination |-> Str(NewYork)]),
      Template([cargo |-> Str(<<"e","l","e","c","t","r","o","n","i","c","s">>), weight |-> Str(<<"5","0","k","g">>)]),
      Template([origin |-> Str(<<>>)]),
      Template([weight |-> Num(50)]),
      Template([origin |-> Str(Delhi), weight |-> Str(<<"2","0","0"," ","K","G">>),
                serviceLevel |-> Str(Express),
                specialRequirements |-> Str(<<"f","r","a","g","i","l","e",","," ","i","n","s","u","r","a","n","c","e">>),
                declaredValue |-> Str(<<"$","2","5",",","0","0","0">>)]) }

Extractions ==
    {[kind |-> "throws"], [kind |-> "noJson"], [kind |-> "badJson"]}
    \cup {[kind |-> "json", parsed |-> p] : p \in ParsedObjects}

-----------------------------------------------------------------------------
(* Checkpointer and HTTP handlers (index.js) *)

\* /agent/shipping/start
StartState ==
    [messages |-> <<>>, shipmentData |-> EmptyObject, currentPhase |-> "greeting",
     completed |-> FALSE, quote |-> Null, output |-> Null]

\* /chat/documents
DocumentChatState(text) ==
    [messages |-> <<Message("user", TextContent(text))>>, shipmentData |-> EmptyObject,
     currentPhase |-> "document_analysis", completed |-> FALSE, quote |-> Null,
     output |-> Null]

\* Variant: a thread without a checkpoint reads as a fresh session
CheckpointerGet_OrFresh(threadId) ==
    IF checkpoint[threadId] = Undefined THEN StartState ELSE checkpoint[threadId]

\* checkpointer.get(config): the stored channel values, deserialized, or
\* nothing
CheckpointerGet(threadId) == checkpoint[threadId]

\* Marks a model call that the request did not make
NotCalled == [kind |-> "notCalled"]

NoRequest ==
    [op |-> "none", thread |-> "", status |-> 0, loaded |-> Undefined,
     input |-> Undefined, result |-> Undefined, calls |-> 0,
     generation |-> NotCalled, extraction |-> NotCalled, invoiceId |-> ""]

Rejected(op, threadId, status) ==
    [NoRequest EXCEPT !.op = op, !.thread = threadId, !.status = status]

\* Variant: the checkpoint is written from the input channels, before the
\* node's update is applied
AgentInvoke_PersistsInput(op, threadId, loaded, state, generation, extraction) ==
    LET result == shippingAgentNode(state, generation, extraction)
        calls == ModelCalls(state, generation)
    IN  /\ checkpoint' = [checkpoint EXCEPT ![threadId] = state]
        /\ last' = [NoRequest EXCEPT
                      !.op = op, !.thread = threadId, !.status = 200,
                      !.loaded = loaded, !.input = state, !.result = result,
                      !.calls = calls,
                      !.generation = IF calls >= 1 THEN generation ELSE NotCalled,
                      !.extraction = IF calls >= 2 THEN extraction ELSE NotCalled]

\* Variant: a write that finds the checkpoint changed since it was loaded
\* keeps the messages stored in the meantime
AgentInvoke_Versioned(op, threadId, loaded, state, generation, extraction) ==
    LET result == shippingAgentNode(state, generation, extraction)
        calls == ModelCalls(state, generation)
        stored == checkpoint[threadId]
        fresh == SubSeq(result.messages, Len(loaded.messages) + 1, Len(result.messages))
    IN  /\ checkpoint' = [checkpoint EXCEPT ![threadId] =
               IF loaded = Undefined \/ stored = Undefined \/ stored = loaded
               THEN result
               ELSE [result EXCEPT !.messages = stored.messages \o fresh]]
        /\ last' = [NoRequest EXCEPT
                      !.op = op, !.thread = threadId, !.status = 200,
                      !.loaded = loaded, !.input = state, !.result = result,
                      !.calls = calls,
                      !.generation = IF calls >= 1 THEN generation ELSE NotCalled,
                      !.extraction = IF calls >= 2 THEN extraction ELSE NotCalled]

\* shippingAgent.invoke(state, config): the graph runs the node on the given
\* state and the checkpointer stores the channel values the node returned.
\* loaded is what the handler read from the checkpointer beforehand.
AgentInvoke(op, threadId, loaded, state, generation, extraction) ==
    LET result == shippingAgentNode(state, generation, extraction)
        calls == ModelCalls(state, generation)
    IN  /\ checkpoint' = [checkpoint EXCEPT ![threadId] = result]
        /\ last' = [NoRequest EXCEPT
                      !.op = op, !.thread = threadId, !.status = 200,
                      !.loaded = loaded, !.input = state, !.result = result,
                      !.calls = calls,
                      !.generation = IF calls >= 1 THEN generation ELSE NotCalled,
                      !.extraction = IF calls >= 2 THEN extraction ELSE NotCalled]

\* The names the two queues and their workers are created with
PdfQueueName == "file-upload-queue"
InvoiceQueueName == "invoice-upload-queue"
QueueNames == {PdfQueueName, InvoiceQueueName}

\* The options the pdf worker is constructed with
PdfWorkerOptions ==
    [concurrency |-> 2,
     limiter |-> [max |-> 10, duration |-> 60000],
     defaultJobOptions |->
         [removeOnComplete |-> 100, removeOnFail |-> 50, attempts |-> 3,
          backoff |-> [type |-> "exponential", delay |-> 2000]]]

\* The options the invoice worker is constructed with
InvoiceWorkerOptions ==
    [concurrency |-> 1,
     limiter |-> [max |-> 5, duration |-> 60000],
     defaultJobOptions |->
         [removeOnComplete |-> 50, removeOnFail |-> 25, attempts |-> 2,
          backoff |-> [type |-> "exponential", delay |-> 3000]]]

\* The options of the worker that consumes the queue
WorkerOptions(queueName) ==
    IF queueName = PdfQueueName THEN PdfWorkerOptions ELSE InvoiceWorkerOptions

\* No run of a processor has ended yet
NoAttempt ==
    [queue |-> "", job |-> "", number |-> 0, path |-> "", stages |-> <<>>,
     text |-> [pages |-> 0, length |-> 0, trimmed |-> 0],
     calls |-> 0, reply |-> "notCalled", analysis |-> NotCalled,
     split |-> 0, batches |-> <<>>, chunks |-> 0,
     thrown |-> "", rethrown |-> "", previous |-> "", write |-> "none",
     outcome |-> "none"]

\* The workers as constructed: nothing on their disk, no rate-limit key,
\* no job running
WorkerIdle ==
    /\ files = {}
    /\ attempt = NoAttempt
    /\ limiter = [q \in QueueNames |-> [count |-> 0, ttl |-> 0]]
    /\ slots = [q \in QueueNames |-> <<>>]
    /\ started = [q \in QueueNames |-> <<>>]

\* The requests that may be in flight at once
Requests == {"req_1", "req_2"}

\* A request whose handler has not started
Idle ==
    [stage |-> "idle", op |-> "none", thread |-> "", loaded |-> Undefined,
     input |-> Undefined, invoiceId |-> ""]

\* No call of the quote function has been made
NoQuoteCalls == [shipmentData |-> EmptyObject, calls |-> <<>>]

Init ==
    /\ shippingAgent = FALSE
    /\ checkpoint = [t \in Threads |-> Undefined]
    /\ invoiceTable = {}
    /\ invoiceQueue = <<>>
    /\ last = NoRequest
    /\ pending = [r \in Requests |-> Idle]
    /\ queue = <<>>
    /\ quoteLog = NoQuoteCalls
    /\ WorkerIdle

\* createShippingAgent(checkpointer).then(...)
AgentInitialized ==
    /\ ~shippingAgent
    /\ shippingAgent' = TRUE
    /\ UNCHANGED <<checkpoint, invoiceTable, invoiceQueue, last>>
    /\ UNCHANGED <<pending, queue, quoteLog>>
    /\ UNCHANGED workerVars

\* POST /agent/shipping/start : the thread id is new
Start(threadId) ==
    /\ checkpoint[threadId] = Undefined
    /\ IF ~shippingAgent
       THEN last' = Rejected("start", threadId, 503) /\ UNCHANGED checkpoint
       ELSE \E g \in Generations, e \in Extractions :
                AgentInvoke("start", threadId, Undefined, StartState, g, e)
    /\ UNCHANGED <<shippingAgent, invoiceTable, invoiceQueue>>
    /\ UNCHANGED <<pending, queue, quoteLog>>
    /\ UNCHANGED workerVars

\* GET /chat/documents with relevant documents found : the thread id is new
DocumentChat(threadId) ==
    /\ checkpoint[threadId] = Undefined
    /\ IF ~shippingAgent
       THEN last' = Rejected("documentChat", threadId, 503) /\ UNCHANGED checkpoint
       ELSE \E text \in UserTexts, g \in Generations, e \in Extractions :
                AgentInvoke("documentChat", threadId, Undefined,
                            DocumentChatState(text), g, e)
    /\ UNCHANGED <<shippingAgent, invoiceTable, invoiceQueue>>
    /\ UNCHANGED <<pending, queue, quoteLog>>
    /\ UNCHANGED workerVars

\* POST /agent/shipping/message
SendMessage(threadId) ==
    /\ IF ~shippingAgent
       THEN last' = Rejected("message", threadId, 503) /\ UNCHANGED checkpoint
       ELSE LET snapshot == CheckpointerGet(threadId) IN
            IF snapshot = Undefined
            THEN last' = Rejected("message", threadId, 404) /\ UNCHANGED checkpoint
            ELSE /\ Len(snapshot.messages) + 2 <= MaxMessages
                 /\ \E text \in UserTexts, g \in Generations, e \in Extractions :
                        AgentInvoke("message", threadId, snapshot,
                            [snapshot EXCEPT !.messages =
                                Append(@, Message("user", TextContent(text)))],
                            g, e)
    /\ UNCHANGED <<shippingAgent, invoiceTable, invoiceQueue>>
    /\ UNCHANGED <<pending, queue, quoteLog>>
    /\ UNCHANGED workerVars

\* ShippingAgentExecutor.invoke on the stored state, with no new user message
Reinvoke(threadId) ==
    /\ shippingAgent
    /\ CheckpointerGet(threadId) # Undefined
    /\ \E g \in Generations, e \in Extractions :
           AgentInvoke("reinvoke", threadId, CheckpointerGet(threadId),
                       CheckpointerGet(threadId), g, e)
    /\ UNCHANGED <<shippingAgent, invoiceTable, invoiceQueue>>
    /\ UNCHANGED <<pending, queue, quoteLog>>
    /\ UNCHANGED workerVars

\* new Queue(name, { connection: redisConnection }) : the options both
\* producer queues are created with
QueueOptions == [connection |-> "redisConnection"]

\* The number of attempts a job is created with: attempts of the options
\* it is added with, which are the defaultJobOptions of the Queue it is
\* added through (Queue.add is called with no options of its own); a job
\* without the option has attempts 0.
JobAttempts(queueOptions) ==
    IF /\ "defaultJobOptions" \in DOMAIN queueOptions
       /\ "attempts" \in DOMAIN queueOptions.defaultJobOptions
    THEN queueOptions.defaultJobOptions.attempts
    ELSE 0

\* queue.add(name, data) : the job as the queue stores it
NewJob(id, name, data, queueOptions) ==
    [id |-> id, name |-> name, data |-> data,
     opts |-> [attempts |-> JobAttempts(queueOptions)],
     attemptsMade |-> 0, status |-> "waiting", failedReason |-> ""]

\* createInvoiceRecord: the row as it is inserted
InvoiceRow(invoiceId, sessionId) ==
    [invoiceId |-> invoiceId, sessionId |-> sessionId, processed |-> FALSE,
     booked |-> FALSE, document_type |-> "invoice", extracted_data |-> EmptyObject]

\* shipmentData.invoices as a sequence (empty when the field is absent)
InvoicesOf(state) ==
    IF Truthy(Get(state.shipmentData, "invoices"))
    THEN Get(state.shipmentData, "invoices").items
    ELSE <<>>

\* The entry and the system message the upload handler pushes into the
\* channel values it loaded
\* Variant: the entry is pushed as already processed
WithInvoice_Processed(currentState, invoiceId) ==
    LET entry == [invoiceId |-> invoiceId, processed |-> TRUE]
    IN  [currentState EXCEPT
            !.shipmentData = Put(@, "invoices", Arr(Append(InvoicesOf(currentState), entry))),
            !.messages = Append(@, Message("system",
                              [kind |-> "invoiceUploaded", invoiceId |-> invoiceId]))]

WithInvoice(currentState, invoiceId) ==
    LET entry == [invoiceId |-> invoiceId, processed |-> FALSE]
    IN  [currentState EXCEPT
            !.shipmentData = Put(@, "invoices", Arr(Append(InvoicesOf(currentState), entry))),
            !.messages = Append(@, Message("system",
                              [kind |-> "invoiceUploaded", invoiceId |-> invoiceId]))]

\* POST /agent/shipping/upload-invoice : a new invoice id; the row and the
\* job are created, then the loaded channel values are changed in the
\* handler and never given back to the checkpointer
UploadInvoice(threadId) ==
    /\ Cardinality(invoiceTable) < MaxInvoices
    /\ LET invoiceId == InvoiceIds[Cardinality(invoiceTable) + 1]
           snapshot == IF shippingAgent THEN CheckpointerGet(threadId) ELSE Undefined
       IN  /\ invoiceTable' = invoiceTable \cup
                  {InvoiceRow(invoiceId, threadId)}
           /\ invoiceQueue' = Append(invoiceQueue,
                  NewJob(invoiceId, "process-invoice",
                         [invoiceId |-> invoiceId, sessionId |-> threadId,
                          cloudinaryUrl |-> "https://res.cloudinary.com/invoice"],
                         QueueOptions))
           /\ last' = [NoRequest EXCEPT
                  !.op = "upload", !.thread = threadId, !.status = 200,
                  !.invoiceId = invoiceId,
                  !.loaded = snapshot,
                  !.result = IF snapshot # Undefined
                             THEN WithInvoice(snapshot, invoiceId) ELSE Undefined]
    /\ UNCHANGED <<shippingAgent, checkpoint>>
    /\ UNCHANGED <<pending, queue, quoteLog>>
    /\ UNCHANGED workerVars

\* POST /agent/shipping/book : the tracking row is created elsewhere; the
\* invoices the loaded state lists get the booking id
Book(threadId) ==
    /\ LET state == CheckpointerGet(threadId) IN
       IF state = Undefined
       THEN last' = Rejected("book", threadId, 404) /\ UNCHANGED invoiceTable
       ELSE /\ last' = [NoRequest EXCEPT !.op = "book", !.thread = threadId,
                           !.status = 200, !.loaded = state]
            /\ invoiceTable' =
                 {IF \E i \in 1..Len(InvoicesOf(state)) :
                        InvoicesOf(state)[i].invoiceId = row.invoiceId
                  THEN [row EXCEPT !.booked = TRUE] ELSE row : row \in invoiceTable}
    /\ UNCHANGED <<shippingAgent, checkpoint, invoiceQueue>>
    /\ UNCHANGED <<pending, queue, quoteLog>>
    /\ UNCHANGED workerVars

Next ==
    \/ AgentInitialized
    \/ \E t \in Threads : Start(t)
    \/ \E t \in Threads : DocumentChat(t)
    \/ \E t \in Threads : SendMessage(t)
    \/ \E t \in Threads : Reinvoke(t)
    \/ \E t \in Threads : UploadInvoice(t)
    \/ \E t \in Threads : Book(t)

Spec == Init /\ [][Next]_vars

-----------------------------------------------------------------------------
(* The two job queues and their workers (index.js produces, test-redis.js  *)
(* consumes).                                                              *)

MaxDocuments == 2

DocumentIds == <<"doc_1", "doc_2", "doc_3">>

\* req.body.strategy || 'user'
Strategies == {"user", "document", "shared"}

\* POST /upload/pdf : the document row is created elsewhere; the job is
\* added to file-upload-queue
UploadPdf(strategy) ==
    /\ Len(queue) < MaxDocuments
    /\ LET documentId == DocumentIds[Len(queue) + 1] IN
       queue' = Append(queue,
           NewJob(documentId, "file-ready",
                  [documentId |-> documentId, strategy |-> strategy,
                   cloudinaryUrl |-> "https://res.cloudinary.com/pdf"],
                  QueueOptions))
    /\ UNCHANGED <<checkpoint, invoiceTable, invoiceQueue, shippingAgent, last,
                   pending, quoteLog>>
    /\ UNCHANGED workerVars

\* fs.existsSync(filePath), filePath being the field path of the job data:
\* false when the data has no such field or the disk holds no such file
ExistsSync(data) ==
    /\ "path" \in DOMAIN data
    /\ \E f \in files : f.path = data.path

\* The file the job refers to, as the worker's disk holds it
FileContent(path) == (CHOOSE f \in files : f.path = path).content

RECURSIVE Sum(_)
Sum(lengths) == IF lengths = <<>> THEN 0 ELSE Head(lengths) + Sum(Tail(lengths))

\* docs.map(doc => doc.pageContent).join(separator): the number of pages,
\* the length of the text and the length of its trim().  A file's content
\* is the lengths of its pages' texts and the white space at the two ends
\* of the joined text.
FullText(content, separatorLength) ==
    LET n == Len(content.pages)
        length == Sum(content.pages)
                      + (IF n > 1 THEN separatorLength * (n - 1) ELSE 0)
    IN  [pages |-> n, length |-> length, trimmed |-> length - content.padding]

\* fs.unlinkSync(filePath): the file is gone afterwards (the call throws,
\* into a catch that only logs, when there was no such file)
UnlinkSync(path) == {f \in files : f.path # path}

\* What the chat-completion call of a classification can yield: content
\* that parses, content that does not, or a failed call
ClassifyReplies == {"json", "unparseable", "throws"}

\* The messages of the errors a run can throw
FileNotFound == "File not found"
LoadFailed == "loader.load failed"
NoPages == "PDF has no pages or could not be read"
EmptyContent == "PDF content is empty or unreadable"
TooShort == "PDF content is empty or too short to analyze"
CallFailed == "chat completion failed"
ParseFailed == "JSON.parse failed"
StoreFailed == "QdrantVectorStore.fromDocuments failed"
UpdateFailed == "invoices update failed"

\* The faults that pass: a later run on the same input need not meet them
TransientFaults == {LoadFailed, StoreFailed, UpdateFailed}

\* A reply of the document classification that parses; confidence is in
\* hundredths
DocumentAnalysis ==
    [documentType |-> "report", confidence |-> 90, language |-> "en",
     summary |-> "summary",
     keyEntities |-> [companies |-> <<"company">>, locations |-> <<>>,
                      dates |-> <<>>, amounts |-> <<>>],
     topics |-> <<"topic">>, sentiment |-> "neutral"]

\* The object the catch block of analyzeDocumentWithAI returns
DocumentFallback ==
    [documentType |-> "other", confidence |-> 30, language |-> "en",
     summary |-> "Analysis unavailable",
     keyEntities |-> [companies |-> <<>>, locations |-> <<>>,
                      dates |-> <<>>, amounts |-> <<>>],
     topics |-> <<>>, sentiment |-> "neutral"]

\* analyzeDocumentWithAI(content, filename): the whole body is a try block,
\* the prompt is built from content.substring(0, 3000) whatever the content
\* is, and the call is always made
analyzeDocumentWithAI(text, reply) ==
    IF reply = "json" THEN DocumentAnalysis ELSE DocumentFallback

\* Number of chat-completion calls analyzeDocumentWithAI makes
DocumentModelCalls(text) == 1

\* A reply of the invoice classification that parses
InvoiceAnalysis ==
    [documentType |-> "Commercial Invoice", confidence |-> 90,
     invoiceDetails |-> [invoiceNumber |-> "INV-1"],
     seller |-> [name |-> "seller"], buyer |-> [name |-> "buyer"],
     shipmentDetails |-> EmptyObject, cargoDetails |-> EmptyObject,
     financials |-> [totalAmount |-> 100], items |-> <<"item">>,
     compliance |-> EmptyObject,
     validation |-> [isComplete |-> TRUE, missingCriticalFields |-> <<>>,
                     complianceScore |-> 90, readyForBooking |-> TRUE],
     extractedText |-> "text", error |-> ""]

\* The object the catch block of analyzeInvoiceWithAI returns (error is its
\* _error.message)
InvoiceFallback(message) ==
    [documentType |-> "Unknown", confidence |-> 20,
     invoiceDetails |-> EmptyObject,
     seller |-> EmptyObject, buyer |-> EmptyObject,
     shipmentDetails |-> EmptyObject, cargoDetails |-> EmptyObject,
     financials |-> EmptyObject, items |-> <<>>,
     compliance |-> EmptyObject,
     validation |-> [isComplete |-> FALSE, missingCriticalFields |-> <<message>>,
                     complianceScore |-> 0, readyForBooking |-> FALSE],
     extractedText |-> message, error |-> message]

\* Variant: a failed call or an unparseable reply is thrown to the caller
analyzeInvoiceWithAI_Rethrows(text, reply) ==
    IF text.length = 0 \/ text.trimmed < 50 THEN InvoiceFallback(TooShort)
    ELSE IF reply = "json" THEN InvoiceAnalysis
    ELSE Thrown

\* analyzeInvoiceWithAI(content, filename): the whole body is a try block;
\* content that is empty or shorter than 50 characters once trimmed is
\* thrown into the catch before the call
analyzeInvoiceWithAI(text, reply) ==
    IF text.length = 0 \/ text.trimmed < 50 THEN InvoiceFallback(TooShort)
    ELSE IF reply = "throws" THEN InvoiceFallback(CallFailed)
    ELSE IF reply = "unparseable" THEN InvoiceFallback(ParseFailed)
    ELSE InvoiceAnalysis

\* Number of chat-completion calls analyzeInvoiceWithAI makes
InvoiceModelCalls(text) == IF text.length = 0 \/ text.trimmed < 50 THEN 0 ELSE 1

MaxBatches == 3

\* const batchSize = 25
batchSize == 25

\* The numbers of chunks splitter.splitDocuments can return: none, one,
\* and what fills a number of batches exactly or with one chunk over
SplitCounts ==
    {0, 1} \cup {batchSize * k : k \in 1..(MaxBatches - 1)}
           \cup {batchSize * k + 1 : k \in 1..(MaxBatches - 1)}

\* What vectorStore.addDocuments does on each batch of a run
BatchOutcomes == [1..MaxBatches -> {"ok", "throws"}]

\* Variant: the loop is left at the first batch that fails
AddBatches_StopsAtFailure(total, i, outcomes) ==
    LET RECURSIVE from(_)
        from(k) ==
            IF k >= total THEN <<>>
            ELSE LET outcome == outcomes[(k \div batchSize) + 1]
                     batch == [size |-> IF total - k < batchSize THEN total - k
                                        ELSE batchSize,
                               outcome |-> outcome]
                 IN  IF outcome = "throws" THEN <<batch>>
                     ELSE <<batch>> \o from(k + batchSize)
    IN  from(i)

\* for (let i = 0; i < enrichedDocs.length; i += batchSize) { const batch =
\* enrichedDocs.slice(i, i + batchSize); try { addDocuments(batch) ... }
\* catch { log } } : the batches the loop goes through from index i on,
\* each with its size and what addDocuments did
AddBatches(total, i, outcomes) ==
    LET RECURSIVE from(_)
        from(k) ==
            IF k >= total THEN <<>>
            ELSE <<[size |-> IF total - k < batchSize THEN total - k
                             ELSE batchSize,
                    outcome |-> outcomes[(k \div batchSize) + 1]]>>
                 \o from(k + batchSize)
    IN  from(i)

\* processedChunks += batch.length, for the batches that were added
RECURSIVE ProcessedChunks(_)
ProcessedChunks(batches) ==
    IF batches = <<>> THEN 0
    ELSE (IF Head(batches).outcome = "ok" THEN Head(batches).size ELSE 0)
             + ProcessedChunks(Tail(batches))

\* The outcomes that make no difference to a run that does not index chunks
NoBatches == [k \in 1..MaxBatches |-> "ok"]

\* The batch outcomes that can make a difference to a run that splits its
\* text into n chunks: those of the batches the loop goes through
OutcomesFor(n) ==
    {outcomes \in BatchOutcomes :
        \A k \in 1..MaxBatches : k > (n + batchSize - 1) \div batchSize => outcomes[k] = "ok"}

\* What the services a run depends on do during that run.  A run that
\* stops at the existence test calls none but the update of its catch
\* block, a document run updates no row, an invoice run indexes no batches
EnvironmentsOf(job) ==
    IF ~ExistsSync(job.data)
    THEN [load : {"ok"}, classify : {"json"}, store : {"ok"}, update : {"ok"},
          errorUpdate : {"ok", "error"}, split : {0}, batches : {NoBatches}]
    ELSE IF job.name = "file-ready"
    THEN UNION {[load : {"ok", "throws"}, classify : ClassifyReplies,
                 store : {"ok", "throws"}, update : {"ok"}, errorUpdate : {"ok"},
                 split : {n}, batches : OutcomesFor(n)] : n \in SplitCounts}
    ELSE [load : {"ok", "throws"}, classify : ClassifyReplies,
          store : {"ok", "throws"}, update : {"ok", "error"},
          errorUpdate : {"ok", "error"}, split : {0}, batches : {NoBatches}]

\* The run of the job that a worker starts
Run(queueName, job) ==
    [NoAttempt EXCEPT
        !.queue = queueName, !.job = job.id, !.number = job.attemptsMade + 1,
        !.path = IF "path" \in DOMAIN job.data THEN job.data.path ELSE "",
        !.previous = job.failedReason]

\* The run ended in the catch block of pdfWorker: nothing is written to
\* the document's row, and the error is thrown again
PdfThrew(run, stages, message) ==
    [run EXCEPT !.stages = stages, !.thrown = message, !.rethrown = message,
                !.outcome = "failed"]

\* The try block of invoiceWorker ran to its return
Returned(run, stages) == [run EXCEPT !.stages = stages, !.outcome = "completed"]

\* pdfWorker's processor, from its first line to its return or to the throw
\* of its catch block
pdfWorker(job, env) ==
    LET run == Run(PdfQueueName, job) IN
    IF ~ExistsSync(job.data) THEN PdfThrew(run, <<"exists">>, FileNotFound)
    ELSE IF env.load = "throws"
         THEN PdfThrew(run, <<"exists", "load">>, LoadFailed)
    ELSE LET fullText == FullText(FileContent(job.data.path), 1)
             aiAnalysis == analyzeDocumentWithAI(fullText, env.classify)
             classified == [run EXCEPT !.text = fullText,
                                       !.calls = DocumentModelCalls(fullText),
                                       !.reply = env.classify,
                                       !.analysis = aiAnalysis]
         IN  IF aiAnalysis = Thrown
             THEN PdfThrew(classified, <<"exists", "load", "classify">>, CallFailed)
             ELSE IF env.store = "throws"
             THEN PdfThrew(classified, <<"exists", "load", "classify", "store">>,
                           StoreFailed)
             ELSE LET splitDocs == IF fullText.length = 0 THEN 0 ELSE env.split
                      batches == AddBatches(splitDocs, 0, env.batches)
                  IN
                  Returned([classified EXCEPT
                               !.split = splitDocs,
                               !.batches = batches,
                               !.chunks = ProcessedChunks(batches)],
                           <<"exists", "load", "classify", "store", "index",
                             "cleanup">>)

\* Variant: the catch block leaves the file where it is
CatchCleanup_KeepsFile(data) == files

\* The cleanup of a catch block: if (filePath && fs.existsSync(filePath))
\* fs.unlinkSync(filePath)
CatchCleanup(data) == IF ExistsSync(data) THEN UnlinkSync(data.path) ELSE files

\* The disk after a run: the try block unlinks the file before it returns,
\* the catch block before it throws
FilesAfter(job, run) ==
    IF run.outcome = "completed" THEN UnlinkSync(job.data.path)
    ELSE CatchCleanup(job.data)

\* The run ended in the catch block of invoiceWorker: processed: false and
\* the message are written to the invoice's row (an error of that update is
\* not looked at), and the error is thrown again
InvoiceThrew(run, stages, message, env) ==
    [run EXCEPT !.stages = stages, !.thrown = message, !.rethrown = message,
                !.write = IF env.errorUpdate = "ok" THEN "failed" ELSE "none",
                !.outcome = "failed"]

\* invoiceWorker's processor, from its first line to its return or to the
\* throw of its catch block
invoiceWorker(job, env) ==
    LET run == Run(InvoiceQueueName, job) IN
    IF ~ExistsSync(job.data) THEN InvoiceThrew(run, <<"exists">>, FileNotFound, env)
    ELSE IF env.load = "throws"
         THEN InvoiceThrew(run, <<"exists", "load">>, LoadFailed, env)
    ELSE LET fullContent == FullText(FileContent(job.data.path), 2) IN
         IF fullContent.pages = 0
         THEN InvoiceThrew([run EXCEPT !.text = fullContent],
                           <<"exists", "load", "check">>, NoPages, env)
         ELSE IF fullContent.length < 50
         THEN InvoiceThrew([run EXCEPT !.text = fullContent],
                           <<"exists", "load", "check">>, EmptyContent, env)
         ELSE LET analysis == analyzeInvoiceWithAI(fullContent, env.classify)
                  classified == [run EXCEPT
                                    !.text = fullContent,
                                    !.calls = InvoiceModelCalls(fullContent),
                                    !.reply = IF InvoiceModelCalls(fullContent) = 0
                                              THEN "notCalled" ELSE env.classify,
                                    !.analysis = analysis]
              IN  IF analysis = Thrown
                  THEN InvoiceThrew(classified,
                                    <<"exists", "load", "check", "classify">>,
                                    CallFailed, env)
                  ELSE IF env.update = "error"
                  THEN InvoiceThrew(classified,
                                    <<"exists", "load", "check", "classify", "update">>,
                                    UpdateFailed, env)
                  ELSE Returned([classified EXCEPT !.write = "processed"],
                                <<"exists", "load", "check", "classify", "update",
                                  "cleanup">>)

\* Variant: the catch block writes the flag without the error's message
InvoicesAfter_DropsMessage(job, run) ==
    {IF row.invoiceId # job.data.invoiceId \/ run.write = "none" THEN row
     ELSE IF run.write = "processed"
     THEN [row EXCEPT !.processed = TRUE,
                      !.document_type = run.analysis.documentType,
                      !.extracted_data = run.analysis]
     ELSE [row EXCEPT !.processed = FALSE]
     : row \in invoiceTable}

\* supabase.from('invoices').update(...).eq('invoice_id', invoiceId): the
\* table after the write of the run, if it made one
InvoicesAfter(job, run) ==
    {IF row.invoiceId # job.data.invoiceId \/ run.write = "none" THEN row
     ELSE IF run.write = "processed"
     THEN [row EXCEPT !.processed = TRUE,
                      !.document_type = run.analysis.documentType,
                      !.extracted_data = run.analysis]
     ELSE [row EXCEPT !.processed = FALSE,
                      !.extracted_data = [error |-> run.thrown]]
     : row \in invoiceTable}

\* The jobs of a queue a worker is running
Active(jobs) == {i \in 1..Len(jobs) : jobs[i].status = "active"}

\* The rate-limit key of the queue holds the maximum: no job is started
\* until the key expires
RateLimited(queueName) ==
    /\ limiter[queueName].ttl > 0
    /\ limiter[queueName].count >= WorkerOptions(queueName).limiter.max

\* Variant: the worker starts a job whatever it is running
HasCapacity_Always(jobs, queueName) == TRUE

\* The worker runs fewer jobs than its concurrency
HasCapacity(jobs, queueName) ==
    Cardinality(Active(jobs)) < WorkerOptions(queueName).concurrency

\* The job is the one the queue hands out next: the first that waits
IsNext(jobs, i) ==
    /\ i \in 1..Len(jobs)
    /\ jobs[i].status = "waiting"
    /\ \A j \in 1..(i - 1) : jobs[j].status # "waiting"

\* Variant: jobs are started whatever the rate-limit key holds
Take_Unlimited(jobs, i, queueName) ==
    /\ IsNext(jobs, i)
    /\ HasCapacity(jobs, queueName)

\* A worker takes the next waiting job when it has capacity and the queue
\* is not rate limited
Take(jobs, i, queueName) ==
    /\ IsNext(jobs, i)
    /\ HasCapacity(jobs, queueName)
    /\ ~RateLimited(queueName)

\* The step of the clock: half the duration of a rate-limit window
ClockStep == PdfWorkerOptions.limiter.duration \div 2

\* The bookkeeping of a start: the job occupies a slot of the worker, the
\* rate-limit counter is incremented, and the increment that creates the
\* key gives it the window's duration to live
Started(i, queueName) ==
    /\ slots' = [slots EXCEPT ![queueName] = Append(@, i)]
    /\ limiter' = [limiter EXCEPT ![queueName] =
           IF @.ttl = 0
           THEN [count |-> 1, ttl |-> WorkerOptions(queueName).limiter.duration]
           ELSE [@ EXCEPT !.count = @ + 1]]
    /\ started' = [started EXCEPT ![queueName] = Append(@, 0)]

\* The slots of a worker once the run of job i has ended
Released(i, queueName) ==
    slots' = [slots EXCEPT ![queueName] = SelectSeq(@, LAMBDA j : j # i)]

\* Variant: a failed job is retried until it has been attempted four times
ShouldRetry_UpToFour(job) == job.attemptsMade + 1 < 4

\* After a processor threw: the job is retried while the attempts made,
\* this one included, are fewer than the attempts of the job's own options
ShouldRetry(job) == job.attemptsMade + 1 < job.opts.attempts

\* The job after a run of its processor
Finished(job, run) ==
    [job EXCEPT !.attemptsMade = @ + 1,
                !.failedReason = run.thrown,
                !.status = IF run.outcome = "completed" THEN "completed"
                           ELSE IF ShouldRetry(job) THEN "waiting"
                           ELSE "failed"]

\* pdfWorker takes a job of file-upload-queue
PdfWorkerTake(i) ==
    /\ Take(queue, i, PdfQueueName)
    /\ queue' = [queue EXCEPT ![i].status = "active"]
    /\ Started(i, PdfQueueName)
    /\ UNCHANGED <<checkpoint, invoiceTable, invoiceQueue, shippingAgent, last,
                   pending, quoteLog, files, attempt>>

\* pdfWorker's processor returns or throws
PdfWorkerFinish(i) ==
    /\ i \in Active(queue)
    /\ \E env \in EnvironmentsOf(queue[i]) :
           LET run == pdfWorker(queue[i], env) IN
           /\ attempt' = run
           /\ files' = FilesAfter(queue[i], run)
           /\ queue' = [queue EXCEPT ![i] = Finished(@, run)]
    /\ Released(i, PdfQueueName)
    /\ UNCHANGED <<checkpoint, invoiceTable, invoiceQueue, shippingAgent, last,
                   pending, quoteLog, limiter, started>>

\* invoiceWorker takes a job of invoice-upload-queue
InvoiceWorkerTake(i) ==
    /\ Take(invoiceQueue, i, InvoiceQueueName)
    /\ invoiceQueue' = [invoiceQueue EXCEPT ![i].status = "active"]
    /\ Started(i, InvoiceQueueName)
    /\ UNCHANGED <<checkpoint, invoiceTable, queue, shippingAgent, last,
                   pending, quoteLog, files, attempt>>

\* invoiceWorker's processor returns, having written the analysis to the
\* invoice's row, or throws, having written processed: false
InvoiceWorkerFinish(i) ==
    /\ i \in Active(invoiceQueue)
    /\ \E env \in EnvironmentsOf(invoiceQueue[i]) :
           LET run == invoiceWorker(invoiceQueue[i], env) IN
           /\ attempt' = run
           /\ files' = FilesAfter(invoiceQueue[i], run)
           /\ invoiceTable' = InvoicesAfter(invoiceQueue[i], run)
           /\ invoiceQueue' = [invoiceQueue EXCEPT ![i] = Finished(@, run)]
    /\ Released(i, InvoiceQueueName)
    /\ UNCHANGED <<checkpoint, queue, shippingAgent, last, pending, quoteLog,
                   limiter, started>>

\* Time passes: a rate-limit key that has outlived its duration is gone,
\* and the starts older than a window are forgotten
Tick ==
    /\ limiter' = [q \in QueueNames |->
           IF limiter[q].ttl <= ClockStep THEN [count |-> 0, ttl |-> 0]
           ELSE [limiter[q] EXCEPT !.ttl = @ - ClockStep]]
    /\ started' = [q \in QueueNames |->
           SelectSeq([k \in 1..Len(started[q]) |-> started[q][k] + ClockStep],
                     LAMBDA age : age < WorkerOptions(q).limiter.duration)]
    /\ UNCHANGED <<checkpoint, invoiceTable, invoiceQueue, shippingAgent, last,
                   pending, queue, quoteLog, files, attempt, slots>>

NextQueue ==
    \/ \E strategy \in Strategies : UploadPdf(strategy)
    \/ \E t \in Threads : UploadInvoice(t)
    \/ \E i \in 1..MaxDocuments : PdfWorkerTake(i)
    \/ \E i \in 1..MaxDocuments : PdfWorkerFinish(i)
    \/ \E i \in 1..MaxInvoices : InvoiceWorkerTake(i)
    \/ \E i \in 1..MaxInvoices : InvoiceWorkerFinish(i)
    \/ Tick

SpecQueue == Init /\ [][NextQueue]_vars

-----------------------------------------------------------------------------
(* The two workers on their own (test-redis.js): one job in one of the     *)
(* queues, as a producer that stores the upload on the worker's disk adds  *)
(* it or as index.js adds it, and the disk the worker finds.               *)

\* Files of every kind the stages tell apart: no page, a page without
\* text, text below and at the 50 characters the invoice worker asks for,
\* text that is mostly white space, and several pages
Contents ==
    { [pages |-> <<>>, padding |-> 0],
      [pages |-> <<0>>, padding |-> 0],
      [pages |-> <<49>>, padding |-> 0],
      [pages |-> <<50>>, padding |-> 0],
      [pages |-> <<60>>, padding |-> 15],
      [pages |-> <<70, 50>>, padding |-> 0] }

UploadPath == "uploads/file.pdf"

\* The disk holds the upload, or does not
Disks == {{}} \cup {{[path |-> UploadPath, content |-> c]} : c \in Contents}

\* The options of a queue created with the retry policy of its worker
PolicyQueueOptions(queueName) ==
    [connection |-> "redisConnection",
     defaultJobOptions |-> WorkerOptions(queueName).defaultJobOptions]

\* The data of a job of the queue: as index.js builds it, with the path of
\* the upload added when the producer stored it on disk
JobData(queueName, withPath) ==
    LET sent == IF queueName = PdfQueueName
                THEN [documentId |-> "doc_1", strategy |-> "user",
                      cloudinaryUrl |-> "https://res.cloudinary.com/pdf"]
                ELSE [invoiceId |-> "inv_1", sessionId |-> "thread_1",
                      cloudinaryUrl |-> "https://res.cloudinary.com/invoice"]
    IN  IF withPath
        THEN [k \in DOMAIN sent \cup {"path"} |->
                 IF k = "path" THEN UploadPath ELSE sent[k]]
        ELSE sent

\* The job a worker finds in its queue
OneJob(queueName, withPath, withPolicy) ==
    NewJob(IF queueName = PdfQueueName THEN "doc_1" ELSE "inv_1",
           IF queueName = PdfQueueName THEN "file-ready" ELSE "process-invoice",
           JobData(queueName, withPath),
           IF withPolicy THEN PolicyQueueOptions(queueName) ELSE QueueOptions)

\* The server holds no session and no request is in flight
ServerIdle ==
    /\ shippingAgent = FALSE
    /\ checkpoint = [t \in Threads |-> Undefined]
    /\ last = NoRequest
    /\ pending = [r \in Requests |-> Idle]
    /\ quoteLog = NoQuoteCalls

InitWorker ==
    /\ ServerIdle
    /\ attempt = NoAttempt
    /\ limiter = [q \in QueueNames |-> [count |-> 0, ttl |-> 0]]
    /\ slots = [q \in QueueNames |-> <<>>]
    /\ started = [q \in QueueNames |-> <<>>]
    /\ invoiceTable = {InvoiceRow("inv_1", "thread_1")}
    /\ \E queueName \in QueueNames, withPath \in BOOLEAN, withPolicy \in BOOLEAN :
           /\ files \in (IF withPath THEN Disks ELSE {{}})
           /\ queue = IF queueName = PdfQueueName
                      THEN <<OneJob(queueName, withPath, withPolicy)>> ELSE <<>>
           /\ invoiceQueue = IF queueName = InvoiceQueueName
                             THEN <<OneJob(queueName, withPath, withPolicy)>> ELSE <<>>

NextWorker ==
    \/ \E i \in 1..Len(queue) : PdfWorkerTake(i)
    \/ \E i \in 1..Len(queue) : PdfWorkerFinish(i)
    \/ \E i \in 1..Len(invoiceQueue) : InvoiceWorkerTake(i)
    \/ \E i \in 1..Len(invoiceQueue) : InvoiceWorkerFinish(i)
    \/ Tick

SpecWorker == InitWorker /\ [][NextWorker]_vars

-----------------------------------------------------------------------------
(* A backlog: the uploads made while a worker was not running, more than   *)
(* its rate limit lets through in one window.                              *)

MaxOverCap == 2

\* The number of jobs in the backlog of the queue
Backlog(queueName) == WorkerOptions(queueName).limiter.max + MaxOverCap

\* The n-th job of the backlog, as index.js adds it
BacklogJob(queueName, n) ==
    IF queueName = PdfQueueName
    THEN NewJob("doc_" \o ToString(n), "file-ready",
                [documentId |-> "doc_" \o ToString(n), strategy |-> "user",
                 cloudinaryUrl |-> "https://res.cloudinary.com/pdf"],
                QueueOptions)
    ELSE NewJob("inv_" \o ToString(n), "process-invoice",
                [invoiceId |-> "inv_" \o ToString(n), sessionId |-> "thread_1",
                 cloudinaryUrl |-> "https://res.cloudinary.com/invoice"],
                QueueOptions)

\* The backlog of the queue, in the order of the uploads
BacklogOf(queueName) == [n \in 1..Backlog(queueName) |-> BacklogJob(queueName, n)]

InitBurst ==
    /\ ServerIdle
    /\ WorkerIdle
    /\ \E queueName \in QueueNames :
           /\ queue = IF queueName = PdfQueueName THEN BacklogOf(queueName) ELSE <<>>
           /\ invoiceQueue = IF queueName = InvoiceQueueName
                             THEN BacklogOf(queueName) ELSE <<>>
           /\ invoiceTable = IF queueName = InvoiceQueueName
                             THEN {InvoiceRow("inv_" \o ToString(n), "thread_1") :
                                       n \in 1..Backlog(queueName)}
                             ELSE {}

SpecBurst == InitBurst /\ [][NextWorker]_vars

\* Each worker keeps fetching jobs and ends every run it starts, and time
\* passes
FairBurst ==
    /\ SpecBurst
    /\ WF_vars(\E i \in 1..Len(queue) : PdfWorkerTake(i))
    /\ WF_vars(\E i \in 1..Len(queue) : PdfWorkerFinish(i))
    /\ WF_vars(\E i \in 1..Len(invoiceQueue) : InvoiceWorkerTake(i))
    /\ WF_vars(\E i \in 1..Len(invoiceQueue) : InvoiceWorkerFinish(i))
    /\ WF_vars(Tick)

-----------------------------------------------------------------------------
(* The quote function on its own: one shipmentData, quoted at several      *)
(* times.                                                                  *)

MaxQuoteCalls == 2
MaxClock == 1

\* Date.now() at a call, in hours
Clock == 0..MaxClock

\* The object that has the given fields, those given as Undefined left out
ObjectOf(fields) ==
    [k \in {k \in DOMAIN fields : fields[k] # Undefined} |-> fields[k]]

Pune == <<"P","u","n","e",","," ","I","n","d","i","a">>
Electronics == <<"e","l","e","c","t","r","o","n","i","c","s">>

\* Values of specialRequirements: absent, a text that names two categories,
\* a text without a keyword, and a list whose items name one category by
\* both of its keywords and a second category
Requirements ==
    {Undefined,
     Str(<<"f","r","a","g","i","l","e",","," ","i","n","s","u","r","a","n","c","e">>),
     Str(<<"n","o","n","e">>),
     Arr(<<Str(<<"H","a","z","a","r","d","o","u","s">>),
           Str(<<"d","a","n","g","e","r","o","u","s">>),
           Str(<<"c","u","s","t","o","m","s">>)>>)}

\* The shipmentData objects the quote function is applied to
ShipmentDatas ==
    { ObjectOf([origin |-> o, destination |-> d, cargo |-> c, weight |-> w,
                serviceLevel |-> s, specialRequirements |-> r,
                declaredValue |-> v]) :
        o \in {Undefined, Str(Mumbai)},
        d \in {Undefined, Str(NewYork), Str(Pune)},
        c \in {Undefined, Str(Electronics)},
        w \in {Undefined, Str(<<"5","0","k","g">>), Str(<<"2","0","0"," ","K","G">>), Num(50)},
        s \in {Undefined, Str(Express), Str(Standard), Str(Economy),
               Str(<<"O","v","e","r","n","i","g","h","t">>), Str(Constructor)},
        r \in Requirements,
        v \in {Undefined, Str(<<"$","2","5",",","0","0","0">>), Str(<<",">>)} }

\* An offer with its estimatedDelivery: Date.now() + (minDays + 1) days
Stamped(offer, now) ==
    [carrierId |-> offer.carrierId, service |-> offer.service, rate |-> offer.rate,
     minDays |-> offer.minDays, maxDays |-> offer.maxDays,
     estimatedDelivery |-> now + (offer.minDays + 1) * 24]

\* Variant: the order of the offers depends on the time of the call
QuoteAt_TimedOrder(shipmentData, now) ==
    LET quote == generateShippingQuote(shipmentData) IN
    IF quote = Thrown THEN Thrown
    ELSE LET n == Len(quote.quotes)
             quotes == [i \in 1..n |->
                           Stamped(quote.quotes[IF now = 0 THEN i ELSE n + 1 - i], now)]
         IN  [type |-> "quote", quotes |-> quotes, recommendedQuote |-> quotes[1],
              totalEstimate |-> quotes[1].rate,
              validUntil |-> now + 48,
              shipmentDetails |-> quote.shipmentDetails]

\* generateShippingQuote(shipmentData) called at the time now: the quote
\* with its timestamp fields
QuoteAt(shipmentData, now) ==
    LET quote == generateShippingQuote(shipmentData) IN
    IF quote = Thrown THEN Thrown
    ELSE LET quotes == [i \in 1..Len(quote.quotes) |-> Stamped(quote.quotes[i], now)]
         IN  [type |-> "quote", quotes |-> quotes, recommendedQuote |-> quotes[1],
              totalEstimate |-> quotes[1].rate,
              validUntil |-> now + 48,
              shipmentDetails |-> quote.shipmentDetails]

InitQuote ==
    /\ shippingAgent = FALSE
    /\ checkpoint = [t \in Threads |-> Undefined]
    /\ invoiceTable = {}
    /\ invoiceQueue = <<>>
    /\ last = NoRequest
    /\ pending = [r \in Requests |-> Idle]
    /\ queue = <<>>
    /\ \E shipmentData \in ShipmentDatas :
           quoteLog = [shipmentData |-> shipmentData, calls |-> <<>>]
    /\ WorkerIdle

\* One more call with the same shipmentData, the clock not running backwards
QuoteCall(now) ==
    /\ Len(quoteLog.calls) < MaxQuoteCalls
    /\ quoteLog.calls # <<>> => now >= quoteLog.calls[Len(quoteLog.calls)].now
    /\ quoteLog' = [quoteLog EXCEPT !.calls =
           Append(@, [now |-> now, result |-> QuoteAt(quoteLog.shipmentData, now)])]
    /\ UNCHANGED <<checkpoint, invoiceTable, invoiceQueue, shippingAgent, last,
                   pending, queue>>
    /\ UNCHANGED workerVars

NextQuote == \E now \in Clock : QuoteCall(now)

SpecQuote == InitQuote /\ [][NextQuote]_vars

-----------------------------------------------------------------------------
(* The same handlers with their awaits as separate steps: a handler that   *)
(* has read the checkpoint may be overtaken by another before it invokes   *)
(* the workflow.                                                           *)

\* req.body.message of each request
RequestText == [r \in Requests |-> <<"message of", r>>]

UserMessage(r) == Message("user", TextContent(RequestText[r]))

\* POST /agent/shipping/message up to the await of shippingAgent.invoke:
\* the checkpoint is read and the user message pushed into the copy
MessageLoad(r, threadId) ==
    /\ pending[r].stage = "idle"
    /\ shippingAgent
    /\ CheckpointerGet(threadId) # Undefined
    /\ Len(CheckpointerGet(threadId).messages) + 2 <= MaxMessages
    /\ LET snapshot == CheckpointerGet(threadId) IN
       pending' = [pending EXCEPT ![r] =
           [Idle EXCEPT !.stage = "loaded", !.op = "message", !.thread = threadId,
                        !.loaded = snapshot,
                        !.input = [snapshot EXCEPT !.messages = Append(@, UserMessage(r))]]]
    /\ UNCHANGED <<checkpoint, invoiceTable, invoiceQueue, shippingAgent, last,
                   queue, quoteLog>>
    /\ UNCHANGED workerVars

\* ... and from there: the workflow runs on the copy and its result is
\* stored
MessageInvoke(r) ==
    /\ pending[r].stage = "loaded"
    /\ pending[r].op = "message"
    /\ \E g \in Generations, e \in Extractions :
           AgentInvoke("message", pending[r].thread, pending[r].loaded,
                       pending[r].input, g, e)
    /\ pending' = [pending EXCEPT ![r].stage = "done"]
    /\ UNCHANGED <<invoiceTable, invoiceQueue, shippingAgent, queue, quoteLog>>
    /\ UNCHANGED workerVars

\* POST /agent/shipping/upload-invoice up to the await of checkpointer.get:
\* the row is created and the job added
UploadRecord(r, threadId) ==
    /\ pending[r].stage = "idle"
    /\ Cardinality(invoiceTable) < MaxInvoices
    /\ LET invoiceId == InvoiceIds[Cardinality(invoiceTable) + 1] IN
       /\ invoiceTable' = invoiceTable \cup
              {InvoiceRow(invoiceId, threadId)}
       /\ invoiceQueue' = Append(invoiceQueue,
              NewJob(invoiceId, "process-invoice",
                     [invoiceId |-> invoiceId, sessionId |-> threadId,
                      cloudinaryUrl |-> "https://res.cloudinary.com/invoice"],
                     QueueOptions))
       /\ pending' = [pending EXCEPT ![r] =
              [Idle EXCEPT !.stage = "recorded", !.op = "upload",
                           !.thread = threadId, !.invoiceId = invoiceId]]
    /\ UNCHANGED <<checkpoint, shippingAgent, last, queue, quoteLog>>
    /\ UNCHANGED workerVars

\* ... and from there: the checkpoint is read, the invoice entry pushed
\* into the copy and the response sent
UploadAppend(r) ==
    /\ pending[r].stage = "recorded"
    /\ LET snapshot == IF shippingAgent THEN CheckpointerGet(pending[r].thread)
                       ELSE Undefined
           result == IF snapshot # Undefined
                     THEN WithInvoice(snapshot, pending[r].invoiceId) ELSE Undefined
       IN  /\ last' = [NoRequest EXCEPT
                  !.op = "upload", !.thread = pending[r].thread, !.status = 200,
                  !.invoiceId = pending[r].invoiceId,
                  !.loaded = snapshot, !.result = result]
           /\ pending' = [pending EXCEPT ![r].stage = "done",
                                         ![r].loaded = snapshot,
                                         ![r].input = result]
    /\ UNCHANGED <<checkpoint, invoiceTable, invoiceQueue, shippingAgent,
                   queue, quoteLog>>
    /\ UNCHANGED workerVars

NextConcurrent ==
    \/ AgentInitialized
    \/ \E t \in Threads : Start(t)
    \/ \E r \in Requests, t \in Threads : MessageLoad(r, t)
    \/ \E r \in Requests : MessageInvoke(r)
    \/ \E r \in Requests, t \in Threads : UploadRecord(r, t)
    \/ \E r \in Requests : UploadAppend(r)

SpecConcurrent == Init /\ [][NextConcurrent]_vars

-----------------------------------------------------------------------------
(* Properties *)

InvokeOps == {"start", "documentChat", "message", "reinvoke"}

\* The last request ran the workflow
Invoked == last.op \in InvokeOps /\ last.status = 200

\* ... on a log that ends with a user message: a conversation turn
UserTurn ==
    /\ Invoked
    /\ last.input.messages # <<>>
    /\ last.input.messages[Len(last.input.messages)].role = "user"

\* ... on a log that ends with an assistant message: a re-invocation
Reinvocation ==
    /\ Invoked
    /\ last.input.messages # <<>>
    /\ last.input.messages[Len(last.input.messages)].role = "assistant"

\* A field value that is neither absent, null nor the empty string
NonEmpty(v) == v # Undefined /\ v # Null /\ v # Str(<<>>)

FieldKeys == ExtractionKeys \cup {"invoices"}

\* The extraction of the last request carried a non-null, non-empty value
\* for the field
Carried(key) ==
    /\ last.extraction.kind = "json"
    /\ NonEmpty(Get(last.extraction.parsed, key))

\* C1: in every persisted session state, completed is true if and only if
\* quote is non-null.
C1_CompletedIffQuote ==
    \A t \in Threads :
        checkpoint[t] # Undefined =>
            (checkpoint[t].completed <=> checkpoint[t].quote # Null)

\* C2: field merge is monotonic.  In every conversation turn, for every
\* shipmentData field, a value that is non-empty before the turn is non-empty
\* in the state the turn returns and persists, and a value differs from the
\* one before only if the turn's extraction carried a non-null, non-empty
\* value for that field, which is then the new value.
C2_FieldMergeMonotonic ==
    UserTurn =>
        /\ checkpoint[last.thread] = last.result
        /\ \A k \in FieldKeys :
               LET before == Get(last.input.shipmentData, k)
                   after == Get(last.result.shipmentData, k)
               IN  /\ NonEmpty(before) => NonEmpty(after)
                   /\ after # before =>
                          Carried(k) /\ after = last.extraction.parsed[k]

\* A turn whose extraction carried null for the weight and an empty string
\* for the origin, both known before, and which kept both.
C2_Witness ==
    /\ UserTurn
    /\ last.extraction.kind = "json"
    /\ last.extraction.parsed["origin"] = Str(<<>>)
    /\ last.extraction.parsed["weight"] = Null
    /\ NonEmpty(Get(last.input.shipmentData, "origin"))
    /\ NonEmpty(Get(last.input.shipmentData, "weight"))
    /\ last.result.shipmentData = last.input.shipmentData

\* C3: invoking the workflow on a state whose last stored message has role
\* assistant returns a state identical to the input in messages,
\* shipmentData, currentPhase, completed and quote, with output equal to
\* that message's content, and makes no model call.
C3_ReinvocationIdentity ==
    Reinvocation =>
        /\ last.result.messages = last.input.messages
        /\ last.result.shipmentData = last.input.shipmentData
        /\ last.result.currentPhase = last.input.currentPhase
        /\ last.result.completed = last.input.completed
        /\ last.result.quote = last.input.quote
        /\ last.result.output = last.input.messages[Len(last.input.messages)].content
        /\ last.calls = 0

\* The generation reply of the last request carries the ready flag: its
\* first token that is not white space is the marker
ReadyFlag ==
    /\ last.generation.kind = "text"
    /\ \E i \in 1..Len(last.generation.text) :
           /\ last.generation.text[i] = Marker
           /\ \A j \in 1..(i - 1) : IsSpaceToken(last.generation.text[j])

\* The last request appended exactly this assistant message to its input log
Appended(content) ==
    last.result.messages = Append(last.input.messages, Message("assistant", content))

\* The turn ended in the catch block of the node
FailedTurn == UserTurn /\ Appended(ApologyContent)

\* origin, destination and cargo are all non-empty in the data
RouteAndCargoKnown(data) ==
    /\ NonEmpty(Get(data, "origin"))
    /\ NonEmpty(Get(data, "destination"))
    /\ NonEmpty(Get(data, "cargo"))

C5_QuoteGeneratedTerminal ==
    [][\A t \in Threads :
          (/\ checkpoint[t] # Undefined
           /\ checkpoint[t].currentPhase = "quote_generated"
           /\ checkpoint[t].completed)
          => /\ checkpoint'[t].currentPhase = "quote_generated"
             /\ checkpoint'[t].completed]_vars

\* C6: the quote of a session is set exactly once.  Once the quote of a
\* thread is non-null, no later step replaces it with another quote.
C6_QuoteSetOnce ==
    [][\A t \in Threads :
          (checkpoint[t] # Undefined /\ checkpoint[t].quote # Null)
          => checkpoint'[t].quote = checkpoint[t].quote]_vars

C8_GreetingOnEmptyLog ==
    (Invoked /\ last.input.messages = <<>>) =>
        /\ last.result.messages = <<Message("assistant", GreetingContent)>>
        /\ last.result.output = GreetingContent
        /\ last.result.currentPhase = "route_collection"
        /\ ~last.result.completed
        /\ last.result.shipmentData = last.input.shipmentData
        /\ last.result.quote = last.input.quote
        /\ last.calls = 0
        /\ checkpoint[last.thread] = last.result

C8_Witness ==
    /\ Invoked /\ last.op = "start"
    /\ last.input.messages = <<>>
    /\ Len(checkpoint[last.thread].messages) = 1

C10_InvoiceReferencePersisted ==
    (last.op = "upload" /\ last.loaded # Undefined) =>
        \E i \in 1..Len(InvoicesOf(checkpoint[last.thread])) :
            InvoicesOf(checkpoint[last.thread])[i].invoiceId = last.invoiceId

\* The log holds the message
Holds(messages, message) == \E i \in 1..Len(messages) : messages[i] = message

\* C11: the checkpoint is written wholesale with no version check.  A turn
\* that completes stores the log it loaded followed by its own user message
\* and one assistant message, whatever the checkpoint has become since the
\* turn loaded it, and an invoice upload stores nothing; so when two turns
\* of one thread have both loaded before either completes, the persisted
\* state lacks the message of the one that completed first.
C11_WholesaleWrite ==
    [][\A r \in Requests :
          /\ (pending[r].stage = "loaded" /\ pending'[r].stage = "done") =>
                 LET t == pending[r].thread IN
                 /\ checkpoint'[t] = last'.result
                 /\ Len(checkpoint'[t].messages) = Len(pending[r].loaded.messages) + 2
                 /\ SubSeq(checkpoint'[t].messages, 1, Len(pending[r].input.messages))
                        = pending[r].input.messages
                 /\ \A q \in Requests \ {r} :
                        ~Holds(pending[r].loaded.messages, UserMessage(q))
                            => ~Holds(checkpoint'[t].messages, UserMessage(q))
          /\ (pending[r].stage = "recorded" /\ pending'[r].stage = "done") =>
                 checkpoint' = checkpoint]_vars

\* Two turns of one thread have both completed, and the persisted log does
\* not hold the user message of one of them.
C11_Witness ==
    \E r, q \in Requests :
        /\ r # q
        /\ pending[r].stage = "done" /\ pending[r].op = "message"
        /\ pending[q].stage = "done" /\ pending[q].op = "message"
        /\ pending[r].thread = pending[q].thread
        /\ Holds(checkpoint[pending[q].thread].messages, UserMessage(q))
        /\ ~Holds(checkpoint[pending[r].thread].messages, UserMessage(r))

\* The first log is an initial part of the second
IsPrefix(a, b) == Len(a) <= Len(b) /\ SubSeq(b, 1, Len(a)) = a

\* C12: the message log is append-only.  Every operation on a thread
\* (conversation turn, re-invocation, invoice upload) leaves a persisted log
\* that has the log before it as a prefix, and the log the operation itself
\* produced has the log it loaded as a prefix: nothing stored is removed,
\* reordered, rewritten or deduplicated.
C12_AppendOnlyLog ==
    [][/\ \A t \in Threads :
              checkpoint[t] # Undefined =>
                  /\ checkpoint'[t] # Undefined
                  /\ IsPrefix(checkpoint[t].messages, checkpoint'[t].messages)
       /\ (/\ last' # last
           /\ last'.status = 200
           /\ last'.op \in {"message", "reinvoke", "upload"}
           /\ last'.loaded # Undefined)
              => /\ last'.loaded = checkpoint[last'.thread]
                 /\ IsPrefix(last'.loaded.messages, last'.result.messages)]_vars

\* A turn on a log that already holds an earlier exchange: the two new
\* messages follow the stored ones, which equal a message already there.
C12_Witness ==
    /\ last.op = "message" /\ last.status = 200
    /\ Len(last.loaded.messages) >= 3
    /\ Len(checkpoint[last.thread].messages) = Len(last.loaded.messages) + 2
    /\ IsPrefix(last.loaded.messages, checkpoint[last.thread].messages)
    /\ checkpoint[last.thread].messages[Len(last.loaded.messages) + 1]
           = last.loaded.messages[Len(last.loaded.messages) - 1]

\* The shipmentData fields that hold a value other than null and ''
NonEmptyFields(data) == {k \in DOMAIN data : NonEmpty(data[k])}

\* A session state without a quote
QuoteFree(state) == state # Undefined /\ state.quote = Null

\* C13: the phase is a function of which shipmentData fields are filled.
\* Two session states of a thread without a quote (the one a request
\* loaded and the one persisted now) that have the same set of non-empty
\* shipmentData fields have the same currentPhase, whatever their logs.
C13_PhaseFunctionOfFields ==
    (/\ last.status = 200
     /\ QuoteFree(last.loaded)
     /\ QuoteFree(checkpoint[last.thread])
     /\ NonEmptyFields(last.loaded.shipmentData)
            = NonEmptyFields(checkpoint[last.thread].shipmentData))
        => last.loaded.currentPhase = checkpoint[last.thread].currentPhase

\* The phases of the state machine
Phases ==
    {"greeting", "route_collection", "cargo_collection", "service_selection",
     "ready_for_quote", "quote_generated"}

\* C14: in every session state, currentPhase is one of greeting,
\* route_collection, cargo_collection, service_selection, ready_for_quote,
\* quote_generated.
C14_PhaseInEnum ==
    \A t \in Threads :
        checkpoint[t] # Undefined => checkpoint[t].currentPhase \in Phases

\* The last request was made on a thread that had no checkpoint
OnMissingThread(op) ==
    /\ last' # last
    /\ last'.op = op
    /\ checkpoint[last'.thread] = Undefined

\* An invoice upload recorded its row and added its job
RecordedAndEnqueued ==
    /\ last'.status = 200
    /\ invoiceTable' = invoiceTable \cup
           {InvoiceRow(last'.invoiceId, last'.thread)}
    /\ invoiceTable' # invoiceTable
    /\ Len(invoiceQueue') = Len(invoiceQueue) + 1
    /\ invoiceQueue'[Len(invoiceQueue')].data.invoiceId = last'.invoiceId
    /\ invoiceQueue'[Len(invoiceQueue')].status = "waiting"

\* C15 as stated: a message sent to a thread with no checkpoint returns
\* session-not-found, makes no model call and creates no session; an
\* invoice upload to such a thread records and enqueues the invoice job
\* without creating a session.
C15_NotFoundOutcome ==
    [][/\ OnMissingThread("message") =>
              /\ last'.status = 404
              /\ last'.calls = 0
              /\ checkpoint' = checkpoint
       /\ OnMissingThread("upload") =>
              /\ RecordedAndEnqueued
              /\ checkpoint' = checkpoint]_vars

\* C15 as amended: once the agent executor exists, a message sent to a
\* thread with no checkpoint returns session-not-found (404); while the
\* executor does not exist the answer is 503 and the checkpoint is not
\* read.  Either way no model call is made, nothing is returned as a state
\* and no session is created.  An invoice upload to a thread with no
\* checkpoint records its row and adds its job without creating a session.
C15_NotFoundOnceInitialized ==
    [][/\ OnMissingThread("message") =>
              /\ last'.status = (IF shippingAgent THEN 404 ELSE 503)
              /\ last'.calls = 0
              /\ last'.generation = NotCalled /\ last'.extraction = NotCalled
              /\ last'.result = Undefined
              /\ checkpoint' = checkpoint
       /\ OnMissingThread("upload") =>
              /\ RecordedAndEnqueued
              /\ checkpoint' = checkpoint]_vars

\* An invoice was uploaded to a thread that has no checkpoint, and a message
\* to the same thread was then answered session-not-found.
C15_Witness ==
    /\ shippingAgent
    /\ last.op = "message" /\ last.status = 404
    /\ checkpoint[last.thread] = Undefined
    /\ \E row \in invoiceTable : row.sessionId = last.thread
    /\ \E i \in 1..Len(invoiceQueue) : invoiceQueue[i].data.sessionId = last.thread

\* An offer without its timestamp field
Untimed(offer) ==
    [carrierId |-> offer.carrierId, service |-> offer.service, rate |-> offer.rate,
     minDays |-> offer.minDays, maxDays |-> offer.maxDays]

\* What two results of the quote function are compared on: the outcome, and
\* for a quote its offers in their order, each without estimatedDelivery,
\* and the recommended offer
Comparable(result) ==
    IF result = Thrown THEN <<Thrown>>
    ELSE <<[i \in 1..Len(result.quotes) |-> Untimed(result.quotes[i])],
           Untimed(result.recommendedQuote), result.totalEstimate,
           result.shipmentDetails>>

ThreeOffersByRate(result) ==
    /\ result # Thrown
    /\ Len(result.quotes) = 3
    /\ \A k \in 1..3 : result.quotes[k].rate.type = "number"
    /\ \A k \in 1..2 : result.quotes[k].rate.num <= result.quotes[k + 1].rate.num
    /\ result.recommendedQuote \in {result.quotes[k] : k \in 1..3}
    /\ \A k \in 1..3 : result.recommendedQuote.rate.num <= result.quotes[k].rate.num

\* C17: for every shipmentData, the quote contains exactly three carrier
\* offers ordered by non-decreasing rate, and recommendedQuote is the offer
\* whose rate is the minimum of the three.
C17_ThreeOffersSortedByRate ==
    \A i \in 1..Len(quoteLog.calls) : ThreeOffersByRate(quoteLog.calls[i].result)

\* A call whose shipmentData has service level Standard returned a quote
StandardQuote(i) ==
    /\ Get(quoteLog.shipmentData, "serviceLevel") = Str(Standard)
    /\ quoteLog.calls[i].result # Thrown

\* C18 as stated: for a shipment with service level Standard, each of the
\* three offers of the quote has a transit-time range that starts at 4 days.
C18_StandardStartsAtFourDays ==
    \A i \in 1..Len(quoteLog.calls) :
        StandardQuote(i) =>
            \A k \in 1..3 : quoteLog.calls[i].result.quotes[k].minDays = 4

\* C18 as amended: for a shipment with service level Standard, the transit
\* ranges of the three offers are 4-7, 5-8 and 6-9 days, one day more for
\* each further carrier of the list (DHL, FedEx, UPS); only the first
\* carrier's range starts at 4 days.
C18_StandardTransitByCarrier ==
    \A i \in 1..Len(quoteLog.calls) :
        StandardQuote(i) =>
            LET quotes == quoteLog.calls[i].result.quotes IN
            /\ Len(quotes) = 3
            /\ \A k \in 1..3 :
                   LET index == CHOOSE n \in 0..2 : CarrierIds[n + 1] = quotes[k].carrierId
                   IN  /\ quotes[k].minDays = 4 + index
                       /\ quotes[k].maxDays = 7 + index
            /\ {quotes[k].minDays : k \in 1..3} = {4, 5, 6}

\* A Standard shipment was quoted: three offers, the cheapest starting at 4
\* days and the dearest at 6.
C18_Witness ==
    /\ Len(quoteLog.calls) >= 1
    /\ StandardQuote(1)
    /\ quoteLog.calls[1].result.quotes[1].minDays = 4
    /\ quoteLog.calls[1].result.quotes[3].minDays = 6
    /\ quoteLog.calls[1].result.quotes[1].rate.type = "number"

\* C19: a document job whose every attempt fails is attempted 3 times and
\* then reaches status failed with attempts = 3.  A document job none of
\* whose attempts succeeded is failed only with three attempts made, and
\* never has a fourth.
C19_DocumentJobFailsAfterThree ==
    \A i \in 1..Len(queue) :
        /\ queue[i].attemptsMade <= 3
        /\ queue[i].status = "failed" => queue[i].attemptsMade = 3

\* The retry ceiling of each kind of job, as the workers' options give it
RetryCeiling(name) ==
    IF name = "file-ready" THEN PdfWorkerOptions.defaultJobOptions.attempts
    ELSE InvoiceWorkerOptions.defaultJobOptions.attempts

\* C20: in every state and for every job, attempts never exceeds the retry
\* ceiling of the job's type: 3 for document jobs and 2 for invoice jobs.
C20_AttemptsWithinCeiling ==
    /\ RetryCeiling("file-ready") = 3
    /\ RetryCeiling("process-invoice") = 2
    /\ \A i \in 1..Len(queue) :
           queue[i].attemptsMade <= RetryCeiling(queue[i].name)
    /\ \A i \in 1..Len(invoiceQueue) :
           invoiceQueue[i].attemptsMade <= RetryCeiling(invoiceQueue[i].name)

\* A document job and an invoice job have both been attempted and have
\* both failed for good.
C20_Witness ==
    /\ \E i \in 1..Len(queue) :
           queue[i].status = "failed" /\ queue[i].attemptsMade >= 1
    /\ \E i \in 1..Len(invoiceQueue) :
           invoiceQueue[i].status = "failed" /\ invoiceQueue[i].attemptsMade >= 1

\* The most recent run of a processor entered the stage
InStages(stage) == \E k \in 1..Len(attempt.stages) : attempt.stages[k] = stage

\* The most recent run loaded the file it was given
Loaded == InStages("load") /\ attempt.thrown # LoadFailed

\* The file of the most recent run is on the worker's disk
FileOnDisk == \E f \in files : f.path = attempt.path

OwningRows == {row \in invoiceTable : row.invoiceId = attempt.job}

\* C22: when any stage of a run throws, for document and invoice jobs
\* alike, the worker has deleted the temporary file, has written a failed
\* status carrying the error's message to the record that owns the job,
\* and throws the same error again.
C22_FailureContract ==
    attempt.outcome = "failed" =>
        /\ ~FileOnDisk
        /\ attempt.write = "failed"
        /\ attempt.queue = InvoiceQueueName =>
               \A row \in OwningRows :
                   /\ ~row.processed
                   /\ row.extracted_data = [error |-> attempt.thrown]
        /\ attempt.thrown # ""
        /\ attempt.rethrown = attempt.thrown

JobsOf(queueName) == IF queueName = PdfQueueName THEN queue ELSE invoiceQueue

\* The jobs a worker's processor is running, as a set
Running(queueName) == {slots[queueName][k] : k \in 1..Len(slots[queueName])}

WindowStarts(queueName) ==
    IF limiter[queueName].ttl = 0 THEN 0
    ELSE Cardinality({k \in 1..Len(started[queueName]) :
             started[queueName][k]
                 <= WorkerOptions(queueName).limiter.duration - limiter[queueName].ttl})

\* The job has been taken by its worker
Taken(queueName, i) ==
    i <= Len(JobsOf(queueName)) /\ JobsOf(queueName)[i].status # "waiting"

\* Every job of the queues has been taken (a job that was taken does not
\* wait again unless it is retried)
AllTaken == \A q \in QueueNames : \A i \in 1..Len(JobsOf(q)) : Taken(q, i)

\* Every job that waits is eventually started
EveryJobStarts == <>AllTaken

IsFallback(queueName, analysis) ==
    IF queueName = PdfQueueName
    THEN /\ analysis.documentType = "other"
         /\ analysis.confidence < 50
         /\ \A group \in DOMAIN analysis.keyEntities :
                analysis.keyEntities[group] = <<>>
         /\ analysis.topics = <<>>
    ELSE /\ analysis.documentType = "Unknown"
         /\ analysis.confidence < 50
         /\ \A group \in {"invoiceDetails", "seller", "buyer", "shipmentDetails",
                          "cargoDetails", "financials", "compliance"} :
                analysis[group] = EmptyObject
         /\ analysis.items = <<>>

\* The stage that follows the classification in the queue's processor
AfterClassify(queueName) == IF queueName = PdfQueueName THEN "store" ELSE "update"

C27_JobCarriesPath ==
    /\ \A i \in 1..Len(queue) : "path" \in DOMAIN queue[i].data
    /\ \A i \in 1..Len(invoiceQueue) : "path" \in DOMAIN invoiceQueue[i].data

\* The turn derived its phase from the fields: both model calls were made,
\* the turn did not end in the catch block and the session has no quote
DerivedPhase ==
    /\ UserTurn
    /\ last.calls = 2
    /\ ~FailedTurn
    /\ last.result.quote = Null

\* origin or destination is absent, null or '' in the data
RouteMissing(data) ==
    \/ ~NonEmpty(Get(data, "origin"))
    \/ ~NonEmpty(Get(data, "destination"))

\* C28: whenever origin or destination is missing and no quote exists, the
\* phase derived by a turn is route_collection, whatever other fields are
\* present.
C28_RouteCollectionWhileRouteMissing ==
    (DerivedPhase /\ RouteMissing(last.result.shipmentData))
        => last.result.currentPhase = "route_collection"

\* The extraction reply of the last turn was received and could not be
\* parsed: it holds no {...}, or JSON.parse threw on it
UnparseableReply ==
    /\ UserTurn
    /\ last.calls = 2
    /\ last.extraction.kind \in {"noJson", "badJson"}

\* C29: a turn whose extraction reply is not parseable JSON ends in the
\* state in which the same turn ends when its extraction call fails: no
\* field is changed, shipmentData is the one the turn started with.
C29_UnparseableAsFailedCall ==
    UnparseableReply =>
        /\ last.result = shippingAgentNode(last.input, last.generation, [kind |-> "throws"])
        /\ last.result.shipmentData = last.input.shipmentData
        /\ checkpoint[last.thread] = last.result

\* A turn on a session that already holds fields, whose extraction reply
\* is not JSON, and which continues the conversation with the same fields.
C29_Witness ==
    /\ UnparseableReply
    /\ last.extraction.kind = "badJson"
    /\ NonEmptyFields(last.input.shipmentData) # {}
    /\ ~FailedTurn
    /\ last.result.shipmentData = last.input.shipmentData

\* The total size of the first k batches of the most recent run that
\* were added to the index
RECURSIVE SucceededSize(_)
SucceededSize(k) ==
    IF k = 0 THEN 0
    ELSE SucceededSize(k - 1)
             + (IF attempt.batches[k].outcome = "ok" THEN attempt.batches[k].size
                ELSE 0)

\* C31: in a document job a failure of a vector-index batch neither fails
\* the job nor stops later batches.  Every run that gets to index its
\* chunks goes through all the batches once, in order (25 chunks each, the
\* last one the remainder), and completes with a chunk count equal to the
\* total size of the batches that succeeded.
C31_BestEffortBatches ==
    InStages("index") =>
        /\ attempt.outcome = "completed"
        /\ Len(attempt.batches) = (attempt.split + 24) \div 25
        /\ \A k \in 1..Len(attempt.batches) :
               attempt.batches[k].size =
                   IF 25 * k <= attempt.split THEN 25
                   ELSE attempt.split - 25 * (k - 1)
        /\ attempt.chunks = SucceededSize(Len(attempt.batches))

\* A run of three batches whose first batch failed: the two others were
\* added and the job completed with their 26 chunks.
C31_Witness ==
    /\ InStages("index")
    /\ Len(attempt.batches) = 3
    /\ attempt.batches[1].outcome = "throws"
    /\ attempt.batches[2].outcome = "ok"
    /\ attempt.batches[3].outcome = "ok"
    /\ attempt.outcome = "completed"
    /\ attempt.chunks = 26

WeightField(shipmentData) ==
    Or(Or(Get(shipmentData, "weight"), Get(shipmentData, "cargo")), Str(<<>>))
ValueField(shipmentData) == Or(Get(shipmentData, "declaredValue"), Str(<<>>))

\* C33: for every shipmentData, whether its weight and declaredValue are
\* absent, without a number or not texts, the quote function raises no
\* error and returns a quote, computed with weight 50 when no weight can be
\* parsed and with declared value 1000 when no value can be parsed.
C33_QuoteTotalWithDefaults ==
    \A i \in 1..Len(quoteLog.calls) :
        LET result == quoteLog.calls[i].result
            weight == WeightField(quoteLog.shipmentData)
            value == ValueField(quoteLog.shipmentData)
        IN  /\ result # Thrown
            /\ ~(weight.type = "string" /\ HasWeightMatch(weight.chars)) =>
                   result.shipmentDetails.weight = 50
            /\ ~(value.type = "string" /\ \E k \in 1..Len(value.chars) : IsDigit(value.chars[k])) =>
                   result.shipmentDetails.declaredValue = Num(1000)

\* The keyword categories of specialRequirements: the texts that match a
\* category and its flat surcharge in dollars (insurance is charged on
\* the declared value instead)
Categories ==
    [insurance |-> [keywords |-> {<<"i","n","s","u","r","a","n","c","e">>}, surcharge |-> 0],
     fragile |-> [keywords |-> {<<"f","r","a","g","i","l","e">>,
                                <<"h","a","n","d","l","e"," ","w","i","t","h"," ","c","a","r","e">>},
                  surcharge |-> 35],
     hazardous |-> [keywords |-> {<<"h","a","z","a","r","d","o","u","s">>,
                                  <<"d","a","n","g","e","r","o","u","s">>},
                    surcharge |-> 150],
     temperature |-> [keywords |-> {<<"t","e","m","p","e","r","a","t","u","r","e">>,
                                    <<"r","e","f","r","i","g","e","r","a","t","e","d">>},
                      surcharge |-> 95],
     customs |-> [keywords |-> {<<"c","u","s","t","o","m","s">>,
                                <<"c","l","e","a","r","a","n","c","e">>},
                  surcharge |-> 55],
     expedite |-> [keywords |-> {<<"e","x","p","r","e","s","s">>, <<"u","r","g","e","n","t">>},
                   surcharge |-> 75]]

\* The text of specialRequirements in lower case, the items of a list
\* joined by spaces
RequirementsText(requirements) ==
    IF ~Truthy(requirements) THEN <<>>
    ELSE IF requirements.type = "array" THEN toLowerCase(JoinWithSpace(requirements.items))
    ELSE IF requirements.type = "string" THEN toLowerCase(requirements.chars)
    ELSE <<>>

\* The categories a lower-case text matches
MatchedIn(text) ==
    {c \in DOMAIN Categories : \E keyword \in Categories[c].keywords : includes(text, keyword)}

\* The categories a specialRequirements value matches
Matched(requirements) == MatchedIn(RequirementsText(requirements))

RECURSIVE SumOfSurcharges(_)
SumOfSurcharges(cs) ==
    IF cs = {} THEN 0
    ELSE LET c == CHOOSE x \in cs : TRUE
         IN  Categories[c].surcharge + SumOfSurcharges(cs \ {c})

\* The sum of the surcharges of the matched categories, each once, in
\* ten-thousandths of a dollar: insurance is 0.8% of the declared value and
\* at least 60 dollars, and no number when the declared value is none
CategorySurcharge(matched, value) ==
    IF "insurance" \in matched /\ value.type = "NaN" THEN NaN
    ELSE Num(SumOfSurcharges(matched) * 10000
             + (IF "insurance" \notin matched THEN 0
                ELSE IF value.num * 80 > 600000 THEN value.num * 80 ELSE 600000))

\* The rate in cents the stated formula gives the carrier at an index for
\* the weight and declared value a quote was computed with
StatedRate(shipmentData, details, index, surcharge) ==
    LET routeType == determineRouteType(Get(shipmentData, "origin"),
                                        Get(shipmentData, "destination"))
        routeBase == IF routeType = "international" THEN 480
                     ELSE IF routeType = "regional" THEN 280 ELSE 120
        serviceLevel == Get(shipmentData, "serviceLevel")
        serviceMultiplier == IF serviceLevel = Str(Express) THEN 250
                             ELSE IF serviceLevel = Str(Economy) THEN 75 ELSE 100
    IN  IF details.declaredValue.type = "NaN" \/ surcharge.type = "NaN" THEN NaN
        ELSE Num(((routeBase + ((details.weight + 9) \div 10) * 18
                             + ((details.declaredValue.num + 999) \div 1000) * 5)
                  * serviceMultiplier * (88 + 8 * index) + surcharge.num + 50) \div 100)

\* The offer of a quote made by the carrier at an index of the carrier list
OfferOf(result, index) ==
    CHOOSE offer \in {result.quotes[k] : k \in 1..Len(result.quotes)} :
        offer.carrierId = CarrierIds[index + 1]

\* C34: for every shipmentData, the rate of the carrier at index i (0, 1,
\* 2) is (routeBase + ceil(weight/10)*18 + ceil(value/1000)*5) *
\* serviceMultiplier * (0.88 + 0.08*i) + surcharge, printed in cents, with
\* routeBase 120, 280 or 480 for a domestic, regional or international
\* route and serviceMultiplier 2.5, 1.0 or 0.75 for Express, Standard or
\* Economy; an unknown or absent service level counts as Standard.
C34_RateFormula ==
    \A i \in 1..Len(quoteLog.calls) :
        LET result == quoteLog.calls[i].result
            shipmentData == quoteLog.shipmentData
        IN  /\ result # Thrown
            /\ \A index \in 0..2 :
                   /\ \E k \in 1..Len(result.quotes) : result.quotes[k].carrierId = CarrierIds[index + 1]
                   /\ OfferOf(result, index).rate =
                          StatedRate(shipmentData, result.shipmentDetails, index,
                                     calculateAdditionalCosts(
                                         Get(shipmentData, "specialRequirements"),
                                         result.shipmentDetails.declaredValue))

\* C35: the surcharge added to every offer is the sum, over the keyword
\* categories matched in specialRequirements (insurance, fragile,
\* hazardous, temperature-controlled, customs, expedite), of the
\* category's surcharge, each category counted at most once; it is zero
\* when specialRequirements is absent or matches no category.  Stated of
\* the most recent call of every reachable state.
C35_SurchargeIsSumOfCategories ==
    quoteLog.calls # <<>> =>
        LET result == quoteLog.calls[Len(quoteLog.calls)].result
            shipmentData == quoteLog.shipmentData
        IN  result # Thrown =>
                LET matched == Matched(Get(shipmentData, "specialRequirements"))
                    surcharge == CategorySurcharge(matched, result.shipmentDetails.declaredValue)
                IN  /\ matched = {} => surcharge = Num(0)
                    /\ \A index \in 0..2 :
                           OfferOf(result, index).rate =
                               StatedRate(shipmentData, result.shipmentDetails, index, surcharge)

\* A quote for a list of requirements that names the hazardous category by
\* both of its keywords and the customs category: every offer carries 150 +
\* 55 dollars over the rate of the same shipment without requirements.
C35_Witness ==
    /\ Len(quoteLog.calls) >= 1
    /\ quoteLog.calls[1].result # Thrown
    /\ Matched(Get(quoteLog.shipmentData, "specialRequirements")) = {"hazardous", "customs"}
    /\ LET result == quoteLog.calls[1].result
           plain == generateShippingQuote(
                        [k \in DOMAIN quoteLog.shipmentData \ {"specialRequirements"} |->
                            quoteLog.shipmentData[k]])
       IN  /\ result.quotes[1].rate.type = "number"
           /\ \A k \in 1..3 : result.quotes[k].rate.num = plain.quotes[k].rate.num + 20500

\* C40: for every shipmentData the three offers are in strictly increasing
\* order of rate as they are computed, so that the sort changes nothing:
\* the offers of the quote are in the order of the carrier list and
\* recommendedQuote is the offer of the first carrier of that list.
C40_SortChangesNothing ==
    \A i \in 1..Len(quoteLog.calls) :
        LET result == quoteLog.calls[i].result IN
        /\ result # Thrown
        /\ Len(result.quotes) = 3
        /\ \A k \in 1..3 : result.quotes[k].carrierId = CarrierIds[k]
        /\ \A k \in 1..3 : result.quotes[k].rate.type = "number"
        /\ \A k \in 1..2 : result.quotes[k].rate.num < result.quotes[k + 1].rate.num
        /\ result.recommendedQuote = result.quotes[1]

\* The messages of a log that have the role
WithRole(messages, role) == SelectSeq(messages, LAMBDA m : m.role = role)

\* C36: after every completed conversation turn the last stored message
\* has role assistant, and each turn that processes a user message appends
\* exactly one assistant message, the reply, the quote or the apology,
\* and no other message.
C36_AssistantClosesEveryTurn ==
    /\ \A t \in Threads :
           checkpoint[t] # Undefined =>
               /\ checkpoint[t].messages # <<>>
               /\ checkpoint[t].messages[Len(checkpoint[t].messages)].role = "assistant"
    /\ UserTurn =>
           /\ Appended(last.result.output)
           /\ \/ last.result.output = ApologyContent
              \/ last.result.output.kind = "quoteMessage"
              \/ /\ last.result.output.kind = "text"
                 /\ last.result.output.text = AssistantResponse(last.generation.text)
           /\ Len(WithRole(last.result.messages, "assistant"))
                  = Len(WithRole(last.input.messages, "assistant")) + 1
           /\ checkpoint[last.thread] = last.result

\* A second user message of a session whose model call failed: the stored
\* log is greeting, user, reply, user, apology.
C36_Witness ==
    /\ UserTurn
    /\ last.op = "message"
    /\ last.generation.kind = "throws"
    /\ Len(last.input.messages) = 4
    /\ Len(checkpoint[last.thread].messages) = 5
    /\ checkpoint[last.thread].messages[5] = Message("assistant", ApologyContent)
    /\ checkpoint[last.thread].messages[3].content.kind = "text"
    /\ Len(WithRole(checkpoint[last.thread].messages, "assistant")) = 3

\* An attempt of the invoice's job returned success
ReturnedSuccess(invoiceId) ==
    \E i \in 1..Len(invoiceQueue) :
        /\ invoiceQueue[i].data.invoiceId = invoiceId
        /\ invoiceQueue[i].status = "completed"

\* A record has processed = true only if an attempt of its job returned
\* success
ProcessedOnlyOnSuccess ==
    \A row \in invoiceTable : row.processed => ReturnedSuccess(row.invoiceId)

\* The most recent run was a failed attempt of an invoice job
FailedInvoiceAttempt == attempt.queue = InvoiceQueueName /\ attempt.outcome = "failed"

-----------------------------------------------------------------------------
(* The node on its own: one session state that lists uploaded invoices,    *)
(* given to the node with a user message.                                  *)

MaxSessionInvoices == 2

\* The fields a session has collected before the turn
CollectedDatas ==
    {EmptyObject,
     [origin |-> Str(Mumbai), destination |-> Str(NewYork)],
     [origin |-> Str(Mumbai), destination |-> Str(NewYork),
      cargo |-> Str(Electronics), weight |-> Str(<<"5","0","k","g">>)]}

\* The channel values after the greeting and n uploads, as the upload
\* handler builds them
RECURSIVE AfterUploads(_, _)
AfterUploads(shipmentData, n) ==
    IF n = 0
    THEN [StartState EXCEPT !.messages = <<Message("assistant", GreetingContent)>>,
                            !.shipmentData = shipmentData,
                            !.currentPhase = determinePhase(shipmentData)]
    ELSE WithInvoice(AfterUploads(shipmentData, n - 1), InvoiceIds[n])

\* The states the node is given: a user message follows the uploads
NodeStates ==
    {[AfterUploads(shipmentData, n) EXCEPT
         !.messages = Append(@, Message("user", TextContent(text)))] :
         shipmentData \in CollectedDatas, n \in 0..MaxSessionInvoices, text \in UserTexts}

\* The extraction replies: those of the prompt's template, and a JSON
\* object that carries a key of its own, which JSON.parse accepts like
\* any other
NodeExtractions ==
    Extractions \cup
    {[kind |-> "json", parsed |-> Put(Template(EmptyObject), "invoices", Arr(<<>>))]}

InitNode ==
    /\ shippingAgent = FALSE
    /\ checkpoint = [t \in Threads |-> Undefined]
    /\ pending = [r \in Requests |-> Idle]
    /\ quoteLog = NoQuoteCalls
    /\ invoiceTable = {}
    /\ invoiceQueue = <<>>
    /\ queue = <<>>
    /\ WorkerIdle
    /\ \E state \in NodeStates :
           last = [NoRequest EXCEPT !.op = "node", !.input = state]

\* shippingAgentNode(state)
NodeCall ==
    /\ last.op = "node"
    /\ last.result = Undefined
    /\ \E g \in Generations, e \in NodeExtractions :
           LET calls == ModelCalls(last.input, g) IN
           last' = [last EXCEPT
                      !.status = 200,
                      !.result = shippingAgentNode(last.input, g, e),
                      !.calls = calls,
                      !.generation = IF calls >= 1 THEN g ELSE NotCalled,
                      !.extraction = IF calls >= 2 THEN e ELSE NotCalled]
    /\ UNCHANGED <<checkpoint, invoiceTable, invoiceQueue, shippingAgent,
                   pending, queue, quoteLog>>
    /\ UNCHANGED workerVars

NextNode == NodeCall

SpecNode == InitNode /\ [][NextNode]_vars

\* The node has returned from a turn on a user message
NodeTurn == last.op = "node" /\ last.result # Undefined

SessionStates ==
    ({checkpoint[t] : t \in Threads} \cup {last.loaded, last.input, last.result})
        \ {Undefined}

====
